---- MODULE Spec2Model ----
(***************************************************************************)
(* Model of the insurance-policy RAG pipeline: the section classifier, the *)
(* chunk builder, the per-document pipeline (process_pdfs, _store_chunks)  *)
(* and its registry, as written in insurance_rag_simple.py and             *)
(* insurance_rag_system.py.  Text is modelled by real strings, so that     *)
(* substring tests, case folding, whitespace splitting and the header      *)
(* regular expression are computed as Python computes them.                *)
(***************************************************************************)
EXTENDS Integers, Sequences, FiniteSets, TLC

VARIABLES
    raw_lines,        \* extract_text_from_pdf: the stripped lines still to classify
    text_content,     \* extracted_data['text_content']: the classified lines
    tables,           \* extracted_data['tables']
    chunk_size,       \* SimpleInsuranceChunker.chunk_size
    chunk_overlap,    \* SimpleInsuranceChunker.chunk_overlap
    pos,              \* index of the next item of text_content in create_chunks
    current_chunk,    \* create_chunks: the accumulating buffer (list of strings)
    current_section,  \* create_chunks: the current category
    chunks,           \* create_chunks: the chunks emitted so far
    phase,            \* which part of the program is running
    disk,             \* the PDF directory: filename -> document
    collection,       \* the Chroma collection: id -> [document, metadata]
    processed_docs,   \* SimpleInsuranceRAGSystem.processed_docs
    pdf_files,        \* process_pdfs: the files of the batch not yet visited
    attempted,        \* logger: the "Processing <name>" lines of the running batch
    outcome,          \* logger: what the last loop iteration of process_pdfs logged
    add_dup,          \* what collection.add does with an id it already holds
    store_reply,      \* query: what collection.query returned
    answer,           \* query: what the call gave its caller (results or exception)
    stats,            \* get_statistics: the dict it returned
    score_input,      \* create_embeddings: the content of the chunk being embedded
    semantic_score,   \* _calculate_semantic_score: its return value
    features,         \* _extract_features: its return value
    vector_db_exists, \* api_backend: whether ./vector_db exists
    groq_api_key,     \* api_backend: whether GROQ_API_KEY is set
    rag_system,       \* api_backend: the module global (None or the system)
    init_result,      \* api_backend: what initialize_rag_system returned at startup
    request,          \* api_backend: the request being answered and what its calls met
    response,         \* api_backend: the response given to the request
    llm_log           \* api_backend: the questions handed to generate_answer

chunker_vars == <<raw_lines, text_content, tables, chunk_size, chunk_overlap, pos,
                  current_chunk, current_section, chunks>>

pipeline_vars == <<disk, collection, processed_docs, pdf_files, attempted, outcome,
                   add_dup>>

caller_vars == <<store_reply, answer, stats>>

embedder_vars == <<score_input, semantic_score, features>>

api_vars == <<vector_db_exists, groq_api_key, rag_system, init_result, request,
              response, llm_log>>

vars == <<chunker_vars, phase, pipeline_vars, caller_vars, embedder_vars, api_vars>>

-----------------------------------------------------------------------------
(* Python string primitives *)

Char(s, i) == SubSeq(s, i, i)

Digits == {"0", "1", "2", "3", "4", "5", "6", "7", "8", "9"}
UpperAlphabet == "ABCDEFGHIJKLMNOPQRSTUVWXYZ"
LowerAlphabet == "abcdefghijklmnopqrstuvwxyz"
Uppers == {Char(UpperAlphabet, i) : i \in 1..26}
Lowers == {Char(LowerAlphabet, i) : i \in 1..26}
Whitespace == {" ", "\t", "\n"}

\* str.lower() on one character
LowerTable == [c \in Uppers |->
                 Char(LowerAlphabet, CHOOSE i \in 1..26 : Char(UpperAlphabet, i) = c)]
LowerChar(c) == IF c \in Uppers THEN LowerTable[c] ELSE c

RECURSIVE StrLower(_)
StrLower(s) ==
    IF s = "" THEN "" ELSE LowerChar(Char(s, 1)) \o StrLower(SubSeq(s, 2, Len(s)))

\* k in t
Contains(t, k) ==
    \E i \in 1..(Len(t) - Len(k) + 1) : SubSeq(t, i, i + Len(k) - 1) = k

\* str.isupper(): at least one cased character and no lower-case one
IsUpper(s) ==
    /\ \E i \in 1..Len(s) : Char(s, i) \in Uppers
    /\ \A i \in 1..Len(s) : Char(s, i) \notin Lowers

\* the first index >= i of s whose character is not in class (Len(s)+1 if none)
RECURSIVE SkipWhile(_, _, _)
SkipWhile(s, i, class) ==
    IF i <= Len(s) /\ Char(s, i) \in class THEN SkipWhile(s, i + 1, class) ELSE i

\* str.split(): the maximal runs of non-whitespace characters
RECURSIVE StrSplit(_)
StrSplit(s) ==
    LET b == SkipWhile(s, 1, Whitespace)
        e == CHOOSE j \in b..(Len(s) + 1) :
                 /\ j > Len(s) \/ Char(s, j) \in Whitespace
                 /\ \A k \in b..(j - 1) : Char(s, k) \notin Whitespace
    IN  IF b > Len(s) THEN <<>>
        ELSE <<SubSeq(s, b, e - 1)>> \o StrSplit(SubSeq(s, e, Len(s)))

\* ' '.join(list)
RECURSIVE JoinSpace(_)
JoinSpace(list) ==
    IF list = <<>> THEN ""
    ELSE IF Len(list) = 1 THEN list[1]
    ELSE list[1] \o " " \o JoinSpace(Tail(list))

\* len(text.split())
WordCount(s) == Len(StrSplit(s))

-----------------------------------------------------------------------------
(* Section classifier *)

section_keywords ==
    <<"policy", "coverage", "exclusions", "terms", "conditions",
      "premium", "deductible", "claim", "benefits", "limitations",
      "definitions", "general conditions", "special conditions",
      "schedule", "endorsement", "rider", "clause", "provision">>

\* re.match(r'^\d+\.?\d*\s+[A-Z]', text)
MatchNumbered(text) ==
    LET a == SkipWhile(text, 1, Digits)
        b == IF a <= Len(text) /\ Char(text, a) = "." THEN a + 1 ELSE a
        c == SkipWhile(text, b, Digits)
        d == SkipWhile(text, c, Whitespace)
    IN  /\ a > 1
        /\ d > c
        /\ d <= Len(text)
        /\ Char(text, d) \in Uppers

IsSectionHeader_NoLengthFloor(text) ==
    \/ MatchNumbered(text)
    \/ IsUpper(text) /\ Len(text) < 100
    \/ \E k \in 1..Len(section_keywords) : Contains(StrLower(text), section_keywords[k])

IsSectionHeader(text) ==
    IF MatchNumbered(text) THEN TRUE
    ELSE IF IsUpper(text) /\ Len(text) > 3 /\ Len(text) < 100 THEN TRUE
    ELSE \E k \in 1..Len(section_keywords) : Contains(StrLower(text), section_keywords[k])

AnyIn(text_lower, words) == \E w \in words : Contains(text_lower, w)

ClassifySection_ExclusionFirst(text) ==
    LET text_lower == StrLower(text)
    IN  IF AnyIn(text_lower, {"exclusion", "excluded", "not covered"}) THEN "exclusion"
        ELSE IF AnyIn(text_lower, {"coverage", "cover", "insured"}) THEN "coverage"
        ELSE IF AnyIn(text_lower, {"definition", "defined", "means"}) THEN "definition"
        ELSE IF AnyIn(text_lower, {"condition", "term", "provision"}) THEN "condition"
        ELSE IF AnyIn(text_lower, {"premium", "payment", "cost"}) THEN "premium"
        ELSE IF AnyIn(text_lower, {"claim", "claimant", "notification"}) THEN "claim"
        ELSE IF AnyIn(text_lower, {"schedule", "table", "summary"}) THEN "schedule"
        ELSE "general"

ClassifySection_ClaimFirst(text) ==
    LET text_lower == StrLower(text)
    IN  IF AnyIn(text_lower, {"claim", "claimant", "notification"}) THEN "claim"
        ELSE IF AnyIn(text_lower, {"coverage", "cover", "insured"}) THEN "coverage"
        ELSE IF AnyIn(text_lower, {"exclusion", "excluded", "not covered"}) THEN "exclusion"
        ELSE IF AnyIn(text_lower, {"definition", "defined", "means"}) THEN "definition"
        ELSE IF AnyIn(text_lower, {"condition", "term", "provision"}) THEN "condition"
        ELSE IF AnyIn(text_lower, {"premium", "payment", "cost"}) THEN "premium"
        ELSE IF AnyIn(text_lower, {"schedule", "table", "summary"}) THEN "schedule"
        ELSE "general"

ClassifySection(text) ==
    LET text_lower == StrLower(text)
    IN  IF AnyIn(text_lower, {"coverage", "cover", "insured"}) THEN "coverage"
        ELSE IF AnyIn(text_lower, {"exclusion", "excluded", "not covered"}) THEN "exclusion"
        ELSE IF AnyIn(text_lower, {"definition", "defined", "means"}) THEN "definition"
        ELSE IF AnyIn(text_lower, {"condition", "term", "provision"}) THEN "condition"
        ELSE IF AnyIn(text_lower, {"premium", "payment", "cost"}) THEN "premium"
        ELSE IF AnyIn(text_lower, {"claim", "claimant", "notification"}) THEN "claim"
        ELSE IF AnyIn(text_lower, {"schedule", "table", "summary"}) THEN "schedule"
        ELSE "general"

\* the dict appended to text_content for one stripped, non-empty line
LineItem(line) ==
    [text |-> line,
     is_header |-> IsSectionHeader(line),
     section_type |-> ClassifySection(line)]

-----------------------------------------------------------------------------
(* Chunk builder *)

\* _create_chunk_metadata (the timestamp is not modelled: nothing reads it)
CreateChunkMetadata(text_list, section_type) ==
    LET content == JoinSpace(text_list)
    IN  [content |-> content,
         type |-> "text",
         metadata |-> [section_type |-> section_type,
                       word_count |-> WordCount(content),
                       char_count |-> Len(content)]]

SentenceEnd == {".", "!", "?"}

\* the sentences of a word list: a sentence ends with a word whose last
\* character is a terminator; the words left over form the last sentence
RECURSIVE SentencesOf(_, _)
SentencesOf(words, open) ==
    IF words = <<>> THEN (IF open = <<>> THEN <<>> ELSE <<JoinSpace(open)>>)
    ELSE LET w == Head(words)
         IN  IF Char(w, Len(w)) \in SentenceEnd
             THEN <<JoinSpace(Append(open, w))>> \o SentencesOf(Tail(words), <<>>)
             ELSE SentencesOf(Tail(words), Append(open, w))

\* _split_into_sentences: doc.sents partitions the text into consecutive
\* sentences, each stripped
SplitIntoSentences(text) == SentencesOf(StrSplit(text), <<>>)

\* the loop over the sentences of an overflowing buffer
RECURSIVE SplitLoop_KeepOverflow(_, _, _, _, _)
SplitLoop_KeepOverflow(sentences, temp_chunk, out, section, size) ==
    IF sentences = <<>> THEN [chunks |-> out, current_chunk |-> temp_chunk]
    ELSE LET sentence == Head(sentences)
             appended == Append(temp_chunk, sentence)
         IN  IF WordCount(JoinSpace(appended)) > size
             THEN SplitLoop_KeepOverflow(Tail(sentences), <<sentence>>,
                            Append(out, CreateChunkMetadata(appended, section)),
                            section, size)
             ELSE SplitLoop_KeepOverflow(Tail(sentences), appended, out, section, size)

\* a sliding window that repeats the last sentence of the chunk just closed
RECURSIVE SplitLoop_Overlap(_, _, _, _, _)
SplitLoop_Overlap(sentences, temp_chunk, out, section, size) ==
    IF sentences = <<>> THEN [chunks |-> out, current_chunk |-> temp_chunk]
    ELSE LET sentence == Head(sentences)
             appended == Append(temp_chunk, sentence)
         IN  IF WordCount(JoinSpace(appended)) > size
             THEN SplitLoop_Overlap(Tail(sentences),
                            IF temp_chunk = <<>> THEN <<sentence>>
                            ELSE <<temp_chunk[Len(temp_chunk)], sentence>>,
                            Append(out, CreateChunkMetadata(
                                            SubSeq(appended, 1, Len(appended) - 1), section)),
                            section, size)
             ELSE SplitLoop_Overlap(Tail(sentences), appended, out, section, size)

\* the overflowing sentence is dropped instead of restarting the buffer
RECURSIVE SplitLoop_DropSentence(_, _, _, _, _)
SplitLoop_DropSentence(sentences, temp_chunk, out, section, size) ==
    IF sentences = <<>> THEN [chunks |-> out, current_chunk |-> temp_chunk]
    ELSE LET sentence == Head(sentences)
             appended == Append(temp_chunk, sentence)
         IN  IF WordCount(JoinSpace(appended)) > size
             THEN SplitLoop_DropSentence(Tail(sentences), <<>>,
                            Append(out, CreateChunkMetadata(
                                            SubSeq(appended, 1, Len(appended) - 1), section)),
                            section, size)
             ELSE SplitLoop_DropSentence(Tail(sentences), appended, out, section, size)

RECURSIVE SplitLoop(_, _, _, _, _)
SplitLoop(sentences, temp_chunk, out, section, size) ==
    IF sentences = <<>> THEN [chunks |-> out, current_chunk |-> temp_chunk]
    ELSE LET sentence == Head(sentences)
             appended == Append(temp_chunk, sentence)
         IN  IF WordCount(JoinSpace(appended)) > size
             THEN SplitLoop(Tail(sentences), <<sentence>>,
                            Append(out, CreateChunkMetadata(
                                            SubSeq(appended, 1, Len(appended) - 1), section)),
                            section, size)
             ELSE SplitLoop(Tail(sentences), appended, out, section, size)

\* "Start new chunk if section changes", else append
SwitchOrAppend_TagNew(st, item) ==
    IF item.is_header /\ item.section_type # st.current_section
    THEN [chunks |-> IF st.current_chunk # <<>>
                     THEN Append(st.chunks,
                                 CreateChunkMetadata(st.current_chunk, item.section_type))
                     ELSE st.chunks,
          current_chunk |-> <<item.text>>,
          current_section |-> item.section_type]
    ELSE [st EXCEPT !.current_chunk = Append(st.current_chunk, item.text)]

\* every header line starts a new chunk
SwitchOrAppend_EveryHeader(st, item) ==
    IF item.is_header
    THEN [chunks |-> IF st.current_chunk # <<>>
                     THEN Append(st.chunks,
                                 CreateChunkMetadata(st.current_chunk, st.current_section))
                     ELSE st.chunks,
          current_chunk |-> <<item.text>>,
          current_section |-> item.section_type]
    ELSE [st EXCEPT !.current_chunk = Append(st.current_chunk, item.text)]

SwitchOrAppend(st, item) ==
    IF item.is_header /\ item.section_type # st.current_section
    THEN [chunks |-> IF st.current_chunk # <<>>
                     THEN Append(st.chunks,
                                 CreateChunkMetadata(st.current_chunk, st.current_section))
                     ELSE st.chunks,
          current_chunk |-> <<item.text>>,
          current_section |-> item.section_type]
    ELSE [st EXCEPT !.current_chunk = Append(st.current_chunk, item.text)]

\* "Check if chunk size limit reached"
CheckSize(st, size) ==
    LET chunk_text == JoinSpace(st.current_chunk)
    IN  IF WordCount(chunk_text) > size
        THEN LET r == SplitLoop(SplitIntoSentences(chunk_text), <<>>, st.chunks,
                                st.current_section, size)
             IN  [chunks |-> r.chunks,
                  current_chunk |-> r.current_chunk,
                  current_section |-> st.current_section]
        ELSE st

\* the body of "for item in text_content"
LoopBody(st, item, size) == CheckSize(SwitchOrAppend(st, item), size)

\* "Add remaining chunk"
AddRemaining_Unguarded(st) ==
    Append(st.chunks, CreateChunkMetadata(st.current_chunk, st.current_section))

AddRemaining(st) ==
    IF st.current_chunk # <<>>
    THEN Append(st.chunks, CreateChunkMetadata(st.current_chunk, st.current_section))
    ELSE st.chunks

\* dict.get(key, default)
DictGet(d, key, default) == IF key \in DOMAIN d THEN d[key] ELSE default

\* "Process tables as separate chunks"
TableChunk(table) ==
    [content |-> table.text,
     type |-> "table",
     metadata |-> [page |-> table.page, table_index |-> table.table_index]]

TableChunks_Reversed(tbls) ==
    [k \in 1..Len(tbls) |-> TableChunk(tbls[Len(tbls) - k + 1])]

TableChunks(tbls) == [k \in 1..Len(tbls) |-> TableChunk(tbls[k])]

RECURSIVE RunLoop(_, _, _)
RunLoop(st, items, size) ==
    IF items = <<>> THEN st ELSE RunLoop(LoopBody(st, Head(items), size), Tail(items), size)

\* create_chunks, from its first line to its return
CreateChunks(extracted_data, size) ==
    LET st == RunLoop([chunks |-> <<>>, current_chunk |-> <<>>, current_section |-> "general"],
                      extracted_data.text_content, size)
    IN  AddRemaining(st) \o TableChunks(extracted_data.tables)

-----------------------------------------------------------------------------
(* The full variant: InsurancePolicyChunker of insurance_rag_system.py,    *)
(* translated from its own text.                                           *)

policy_section_keywords ==
    <<"policy", "coverage", "exclusions", "terms", "conditions",
      "premium", "deductible", "claim", "benefits", "limitations",
      "definitions", "general conditions", "special conditions",
      "schedule", "endorsement", "rider", "clause", "provision">>

PolicyIsSectionHeader_NoKeywords(text) ==
    IF MatchNumbered(text) THEN TRUE
    ELSE IsUpper(text) /\ Len(text) > 3 /\ Len(text) < 100

\* InsurancePolicyChunker._is_section_header
PolicyIsSectionHeader(text) ==
    IF MatchNumbered(text) THEN TRUE
    ELSE IF IsUpper(text) /\ Len(text) > 3 /\ Len(text) < 100 THEN TRUE
    ELSE \E k \in 1..Len(policy_section_keywords) :
             Contains(StrLower(text), policy_section_keywords[k])

\* InsurancePolicyChunker._classify_section
PolicyClassifySection(text) ==
    LET text_lower == StrLower(text)
    IN  IF AnyIn(text_lower, {"coverage", "cover", "insured"}) THEN "coverage"
        ELSE IF AnyIn(text_lower, {"exclusion", "excluded", "not covered"}) THEN "exclusion"
        ELSE IF AnyIn(text_lower, {"definition", "defined", "means"}) THEN "definition"
        ELSE IF AnyIn(text_lower, {"condition", "term", "provision"}) THEN "condition"
        ELSE IF AnyIn(text_lower, {"premium", "payment", "cost"}) THEN "premium"
        ELSE IF AnyIn(text_lower, {"claim", "claimant", "notification"}) THEN "claim"
        ELSE IF AnyIn(text_lower, {"schedule", "table", "summary"}) THEN "schedule"
        ELSE "general"

\* extract_text_with_structure: the dict appended for one stripped,
\* non-empty line (page and line number are not modelled: nothing reads them)
PolicyLineItem(line) ==
    [text |-> line,
     is_header |-> PolicyIsSectionHeader(line),
     section_type |-> PolicyClassifySection(line)]

\* InsurancePolicyChunker._create_chunk_metadata
PolicyCreateChunkMetadata(text_list, section_type) ==
    LET content == JoinSpace(text_list)
    IN  [content |-> content,
         type |-> "text",
         metadata |-> [section_type |-> section_type,
                       word_count |-> WordCount(content),
                       char_count |-> Len(content)]]

\* InsurancePolicyChunker._split_into_sentences
PolicySplitIntoSentences(text) == SentencesOf(StrSplit(text), <<>>)

\* create_semantic_chunks: the loop over the sentences of an overflowing buffer
RECURSIVE PolicySplitLoop(_, _, _, _, _)
PolicySplitLoop(sentences, temp_chunk, out, section, size) ==
    IF sentences = <<>> THEN [chunks |-> out, current_chunk |-> temp_chunk]
    ELSE LET sentence == Head(sentences)
             appended == Append(temp_chunk, sentence)
         IN  IF WordCount(JoinSpace(appended)) > size
             THEN PolicySplitLoop(Tail(sentences), <<sentence>>,
                      Append(out, PolicyCreateChunkMetadata(
                                      SubSeq(appended, 1, Len(appended) - 1), section)),
                      section, size)
             ELSE PolicySplitLoop(Tail(sentences), appended, out, section, size)

\* create_semantic_chunks: the body of "for item in extracted_data['text_content']"
PolicyLoopBody(st, item, size) ==
    LET switched ==
            IF item.is_header /\ item.section_type # st.current_section
            THEN [chunks |-> IF st.current_chunk # <<>>
                             THEN Append(st.chunks,
                                         PolicyCreateChunkMetadata(st.current_chunk,
                                                                   st.current_section))
                             ELSE st.chunks,
                  current_chunk |-> <<item.text>>,
                  current_section |-> item.section_type]
            ELSE [st EXCEPT !.current_chunk = Append(st.current_chunk, item.text)]
        chunk_text == JoinSpace(switched.current_chunk)
    IN  IF WordCount(chunk_text) > size
        THEN LET r == PolicySplitLoop(PolicySplitIntoSentences(chunk_text), <<>>,
                                      switched.chunks, switched.current_section, size)
             IN  [chunks |-> r.chunks,
                  current_chunk |-> r.current_chunk,
                  current_section |-> switched.current_section]
        ELSE switched

RECURSIVE PolicyRunLoop(_, _, _)
PolicyRunLoop(st, items, size) ==
    IF items = <<>> THEN st
    ELSE PolicyRunLoop(PolicyLoopBody(st, Head(items), size), Tail(items), size)

\* create_semantic_chunks: "Process tables as separate chunks"
PolicyTableChunk(table) ==
    [content |-> table.text,
     type |-> "table",
     metadata |-> [source |-> table.method,
                   table_index |-> DictGet(table, "table_index", 0),
                   page |-> DictGet(table, "page", 0),
                   accuracy |-> DictGet(table, "accuracy", 0)]]

\* create_semantic_chunks, from its first line to its return
CreateSemanticChunks(extracted_data, size) ==
    LET st == PolicyRunLoop([chunks |-> <<>>, current_chunk |-> <<>>,
                             current_section |-> "general"],
                            extracted_data.text_content, size)
        text_chunks == IF st.current_chunk # <<>>
                       THEN Append(st.chunks,
                                   PolicyCreateChunkMetadata(st.current_chunk,
                                                             st.current_section))
                       ELSE st.chunks
    IN  text_chunks \o
        [k \in 1..Len(extracted_data.tables) |-> PolicyTableChunk(extracted_data.tables[k])]

-----------------------------------------------------------------------------
(* Inputs of the classifier: lines of up to MaxLineWords words of a small  *)
(* vocabulary, and the fixture lines of the specification and its edges.   *)

MaxLineWords == 2

Vocabulary ==
    {"COVERAGE", "excluded", "claim", "means", "Payment", "summary",
     "provision", "1.2", "7", "Hospital", "stay", "AB"}

RECURSIVE LinesOfWords(_)
LinesOfWords(n) ==
    IF n = 1 THEN Vocabulary
    ELSE LET shorter == LinesOfWords(n - 1)
         IN  shorter \cup {l \o " " \o w : l \in shorter, w \in Vocabulary}

RECURSIVE Rep(_, _)
Rep(s, n) == IF n = 0 THEN "" ELSE s \o Rep(s, n - 1)

ExclusionFixture == "This is excluded from coverage."

FixtureLines ==
    {ExclusionFixture, "COVERAGE FOR HOSPITALIZATION",
     "Random paragraph with no keywords.", "ABC", "ABCD", "abcd", "12345",
     "2.1 Definitions", "3. Benefits", "4 rules apply", "5.6.7 Other", "8Z",
     "Not covered here", "The claimant is insured",
     Rep("A", 99), Rep("A", 100), Rep("a", 50)}

LinePool == LinesOfWords(MaxLineWords) \cup FixtureLines

-----------------------------------------------------------------------------
(* The classifier applied to one extracted line (extract_text_from_pdf,    *)
(* the body of the loop over a page's lines).                              *)

\* the caller of query and get_statistics holds no returned value
CallerAtRest ==
    /\ store_reply = <<>>
    /\ answer = <<>>
    /\ stats = <<>>

\* _calculate_semantic_score was not called
EmbedderAtRest ==
    /\ score_input = ""
    /\ semantic_score = <<>>
    /\ features = <<>>

\* the API process was not started
ApiAtRest ==
    /\ vector_db_exists = FALSE
    /\ groq_api_key = FALSE
    /\ rag_system = <<>>
    /\ init_result = <<>>
    /\ request = <<>>
    /\ response = <<>>
    /\ llm_log = <<>>

\* the pipeline before any document was processed
PipelineAtRest ==
    /\ CallerAtRest
    /\ EmbedderAtRest
    /\ ApiAtRest
    /\ disk = <<>>
    /\ collection = <<>>
    /\ processed_docs = <<>>
    /\ pdf_files = <<>>
    /\ attempted = <<>>
    /\ outcome = <<>>
    /\ add_dup = "ignore"

InitClassify ==
    /\ PipelineAtRest
    /\ raw_lines \in {<<line>> : line \in LinePool}
    /\ text_content = <<>>
    /\ tables = <<>>
    /\ chunk_size = 512
    /\ chunk_overlap = 50
    /\ pos = 1
    /\ current_chunk = <<>>
    /\ current_section = "general"
    /\ chunks = <<>>
    /\ phase = "extract"

ExtractLine ==
    /\ phase = "extract"
    /\ raw_lines # <<>>
    /\ text_content' = Append(text_content, LineItem(Head(raw_lines)))
    /\ raw_lines' = Tail(raw_lines)
    /\ UNCHANGED <<tables, chunk_size, chunk_overlap, pos, current_chunk, current_section,
                   chunks, phase, pipeline_vars, caller_vars, embedder_vars, api_vars>>

NextClassify == ExtractLine

SpecClassify == InitClassify /\ [][NextClassify]_vars

-----------------------------------------------------------------------------
(* Claims about the classifier *)

CascadeOrder ==
    <<"coverage", "exclusion", "definition", "condition", "premium", "claim", "schedule">>

RuleWords(category) ==
    CASE category = "coverage" -> {"coverage", "cover", "insured"}
      [] category = "exclusion" -> {"exclusion", "excluded", "not covered"}
      [] category = "definition" -> {"definition", "defined", "means"}
      [] category = "condition" -> {"condition", "term", "provision"}
      [] category = "premium" -> {"premium", "payment", "cost"}
      [] category = "claim" -> {"claim", "claimant", "notification"}
      [] category = "schedule" -> {"schedule", "table", "summary"}

RuleMatches(category, line) ==
    \E w \in RuleWords(category) : Contains(StrLower(line), w)

FirstMatchingCategory(line) ==
    LET hits == {k \in 1..Len(CascadeOrder) : RuleMatches(CascadeOrder[k], line)}
    IN  IF hits = {} THEN "general"
        ELSE CascadeOrder[CHOOSE k \in hits : \A j \in hits : k <= j]

\* C3: every classified line carries the category of the first rule of the
\* cascade coverage, exclusion, definition, condition, premium, claim, schedule
\* that matches it, general when none matches; a line with both a claim keyword
\* and a coverage keyword is classified coverage.
C3_PriorityCascade ==
    \A i \in 1..Len(text_content) :
        LET item == text_content[i]
        IN  /\ item.section_type = FirstMatchingCategory(item.text)
            /\ (RuleMatches("claim", item.text) /\ RuleMatches("coverage", item.text))
                   => item.section_type = "coverage"

C3_Witness ==
    \E i \in 1..Len(text_content) :
        /\ RuleMatches("claim", text_content[i].text)
        /\ RuleMatches("coverage", text_content[i].text)
        /\ text_content[i].section_type = "coverage"

\* C4 as stated: the line "This is excluded from coverage." is classified
\* exclusion.
C4_FixtureIsExclusion ==
    \A i \in 1..Len(text_content) :
        text_content[i].text = ExclusionFixture
            => text_content[i].section_type = "exclusion"

\* C4 as amended: the line "This is excluded from coverage." is classified
\* coverage, because the coverage rule precedes the exclusion rule.
C4_FixtureIsCoverage ==
    \A i \in 1..Len(text_content) :
        text_content[i].text = ExclusionFixture
            => text_content[i].section_type = "coverage"

C4_Witness ==
    \E i \in 1..Len(text_content) :
        /\ text_content[i].text = ExclusionFixture
        /\ RuleMatches("exclusion", ExclusionFixture)
        /\ text_content[i].section_type = "coverage"

\* the numbered-section pattern, stated by its parts: one or more digits, an
\* optional dot, any digits, one or more whitespace characters, an upper-case
\* letter, all from the first character on
NumberedSection(line) ==
    \E a \in 1..Len(line), c \in 1..Len(line), d \in 1..Len(line) :
        /\ a <= c /\ c < d
        /\ \A k \in 1..a : Char(line, k) \in Digits
        /\ \A k \in (a + 1)..c : Char(line, k) \in Digits \/ (k = a + 1 /\ Char(line, k) = ".")
        /\ \A k \in (c + 1)..(d - 1) : Char(line, k) \in Whitespace
        /\ d - 1 > c
        /\ Char(line, d) \in Uppers

FullyUpperCase(line) ==
    /\ StrLower(line) # line
    /\ \A k \in 1..Len(line) : Char(line, k) \notin Lowers

HasSectionKeyword(line) ==
    \E k \in 1..Len(section_keywords) : Contains(StrLower(line), section_keywords[k])

\* C5: a line is flagged as a header exactly when it matches the numbered
\* pattern, or is fully upper-case with 3 < length < 100, or contains a section
\* keyword case-insensitively.
C5_HeaderDetection ==
    \A i \in 1..Len(text_content) :
        LET line == text_content[i].text
        IN  text_content[i].is_header <=>
                \/ NumberedSection(line)
                \/ FullyUpperCase(line) /\ Len(line) > 3 /\ Len(line) < 100
                \/ HasSectionKeyword(line)

\* an upper-case line at a length bound is no header, one inside is
C5_Witness ==
    \E i \in 1..Len(text_content) :
        LET line == text_content[i].text
        IN  /\ FullyUpperCase(line)
            /\ Len(line) \in {3, 100}
            /\ ~text_content[i].is_header

-----------------------------------------------------------------------------
(* The chunk builder run on extracted data, one loop iteration per step.   *)

DefaultChunkOverlap == 50

MaxLines == 3
MaxChunkSize == 3

\* the values of the chunk_overlap parameter: none, and the default
ChunkOverlaps == {0, DefaultChunkOverlap}

ChunkLines ==
    {"COVERAGE", "Exclusions apply here.", "It pays. It ends.",
     "one two three four", "The claim form.", "Stop.", "ABCD EF."}

RECURSIVE LineSeqs(_)
LineSeqs(n) ==
    IF n = 0 THEN {<<>>}
    ELSE LET shorter == LineSeqs(n - 1)
         IN  shorter \cup {Append(q, LineItem(l)) : q \in shorter, l \in ChunkLines}

TableInputs ==
    {<<>>,
     <<[page |-> 1, table_index |-> 1, text |-> "Limit\t100\nIt pays.\t7"],
       [page |-> 2, table_index |-> 0, text |-> "Rate\t7"]>>}

BuilderState ==
    [chunks |-> chunks, current_chunk |-> current_chunk, current_section |-> current_section]

InitChunk ==
    /\ PipelineAtRest
    /\ raw_lines = <<>>
    /\ text_content \in LineSeqs(MaxLines)
    /\ tables \in TableInputs
    /\ chunk_size \in 0..MaxChunkSize
    /\ chunk_overlap \in ChunkOverlaps
    /\ pos = 1
    /\ current_chunk = <<>>
    /\ current_section = "general"
    /\ chunks = <<>>
    /\ phase = "chunk"

ChunkItem ==
    /\ phase = "chunk"
    /\ pos <= Len(text_content)
    /\ LET st == LoopBody(BuilderState, text_content[pos], chunk_size)
       IN  /\ chunks' = st.chunks
           /\ current_chunk' = st.current_chunk
           /\ current_section' = st.current_section
    /\ pos' = pos + 1
    /\ UNCHANGED <<raw_lines, text_content, tables, chunk_size, chunk_overlap, phase,
                   pipeline_vars, caller_vars, embedder_vars, api_vars>>

ChunkReturn ==
    /\ phase = "chunk"
    /\ pos > Len(text_content)
    /\ chunks' = AddRemaining(BuilderState) \o TableChunks(tables)
    /\ phase' = "chunked"
    /\ UNCHANGED <<raw_lines, text_content, tables, chunk_size, chunk_overlap, pos,
                   current_chunk, current_section, pipeline_vars, caller_vars,
                   embedder_vars, api_vars>>

NextChunk == ChunkItem \/ ChunkReturn

SpecChunk == InitChunk /\ [][NextChunk]_vars

-----------------------------------------------------------------------------
(* Claims about the chunk builder *)

TextChunkIndexes(cs) == {k \in 1..Len(cs) : cs[k].type = "text"}

\* C1: with chunk_size >= 1, every text chunk emitted has at most chunk_size
\* words, unless it is exactly one sentence whose own length exceeds chunk_size.
C1_SizeBound ==
    chunk_size >= 1 =>
        \A k \in TextChunkIndexes(chunks) :
            \/ WordCount(chunks[k].content) <= chunk_size
            \/ /\ Len(SplitIntoSentences(chunks[k].content)) = 1
               /\ WordCount(SplitIntoSentences(chunks[k].content)[1]) > chunk_size

\* a finished run that emitted both a full chunk of several sentences and a
\* single over-long sentence
C1_Witness ==
    /\ phase = "chunked"
    /\ chunk_size >= 1
    /\ \E k \in TextChunkIndexes(chunks) :
           /\ WordCount(chunks[k].content) > chunk_size
           /\ Len(SplitIntoSentences(chunks[k].content)) = 1
    /\ \E k \in TextChunkIndexes(chunks) :
           /\ WordCount(chunks[k].content) = chunk_size
           /\ Len(SplitIntoSentences(chunks[k].content)) > 1

AtCategoryChange ==
    /\ phase = "chunk"
    /\ pos <= Len(text_content)
    /\ text_content[pos].is_header
    /\ text_content[pos].section_type # current_section

\* C2: at a header line whose category differs from the current category, the
\* buffer accumulated so far is emitted tagged with the old category, the
\* current category becomes the header's, and every text chunk emitted from then
\* on (until the next such header) is tagged with the header's category.
C2_CategoryChangeBoundary ==
    [][LET n == Len(chunks)
           closing == AtCategoryChange /\ current_chunk # <<>>
       IN  /\ AtCategoryChange => current_section' = text_content[pos].section_type
           /\ closing =>
                  /\ Len(chunks') > n
                  /\ chunks'[n + 1].content = JoinSpace(current_chunk)
                  /\ chunks'[n + 1].metadata.section_type = current_section
           /\ ~AtCategoryChange => current_section' = current_section
           /\ \A k \in (n + 1)..Len(chunks') :
                  (chunks'[k].type = "text" /\ ~(closing /\ k = n + 1))
                      => chunks'[k].metadata.section_type = current_section'
      ]_vars

\* two adjacent text chunks of different categories, the second one being the
\* chunk that starts with the header line
C2_Witness ==
    \E k \in 1..(Len(chunks) - 1) :
        /\ chunks[k].type = "text" /\ chunks[k + 1].type = "text"
        /\ chunks[k].metadata.section_type # chunks[k + 1].metadata.section_type
        /\ \E i \in 1..Len(text_content) :
               /\ text_content[i].is_header
               /\ text_content[i].section_type = chunks[k + 1].metadata.section_type
               /\ chunks[k + 1].content = text_content[i].text

\* C15 as stated: a chunker configured with chunk_size <= 0 produces no chunks.
C15_InvalidChunkSizeRejected ==
    chunk_size <= 0 => chunks = <<>>

RECURSIVE SumWords(_)
SumWords(strings) ==
    IF strings = <<>> THEN 0 ELSE WordCount(Head(strings)) + SumWords(Tail(strings))

IsTableChunk(chunk) == chunk.type = "table"

IsTextChunk(chunk) == chunk.type = "text"

\* C16: the finished run holds exactly one table chunk per extracted table, in
\* table order and after the text chunks, with the table's text, page and
\* table index, whatever chunk_size is; no table chunk is emitted before, and
\* the text chunks hold the words of the lines and no word of a table.
C16_TablesOneToOne ==
    /\ phase = "chunk" => SelectSeq(chunks, IsTableChunk) = <<>>
    /\ phase = "chunked" =>
           LET table_chunks == SelectSeq(chunks, IsTableChunk)
               text_chunks == SelectSeq(chunks, IsTextChunk)
           IN  /\ Len(table_chunks) = Len(tables)
               /\ chunks = text_chunks \o table_chunks
               /\ \A k \in 1..Len(tables) :
                      /\ table_chunks[k].content = tables[k].text
                      /\ table_chunks[k].metadata.page = tables[k].page
                      /\ table_chunks[k].metadata.table_index = tables[k].table_index
               /\ SumWords([k \in 1..Len(text_chunks) |-> text_chunks[k].content])
                      = SumWords([k \in 1..Len(text_content) |-> text_content[k].text])

\* a finished run on two tables, each of more words than chunk_size, and some
\* text that was split
C16_Witness ==
    /\ phase = "chunked"
    /\ Len(tables) = 2
    /\ chunk_size = 1
    /\ \A k \in 1..2 : WordCount(tables[k].text) > chunk_size
    /\ Len(SelectSeq(chunks, IsTextChunk)) >= 2
    /\ Len(SelectSeq(chunks, IsTableChunk)) = 2

\* C18: the chunks of a finished run are a function of the lines, the tables
\* and chunk_size alone, so they are the same for every chunk_overlap; and at
\* any time the text chunks and the buffer together hold as many words as the
\* lines read so far, so no word is in two chunks.
C18_OverlapHasNoEffect ==
    /\ phase = "chunked" =>
           chunks = CreateChunks([text_content |-> text_content, tables |-> tables],
                                 chunk_size)
    /\ phase = "chunk" =>
           SumWords([k \in 1..Len(chunks) |-> chunks[k].content]) + SumWords(current_chunk)
               = SumWords([k \in 1..(pos - 1) |-> text_content[k].text])

\* a finished run with the default overlap of 50 in which an overflowing
\* buffer was split into two consecutive chunks of one category
C18_Witness ==
    /\ phase = "chunked"
    /\ chunk_overlap = DefaultChunkOverlap
    /\ chunk_size >= 1
    /\ \E k \in 1..(Len(chunks) - 1) :
           /\ chunks[k].type = "text" /\ chunks[k + 1].type = "text"
           /\ chunks[k].content # "" /\ chunks[k + 1].content # ""
           /\ chunks[k].metadata.section_type = chunks[k + 1].metadata.section_type
           /\ WordCount(chunks[k].content) + WordCount(chunks[k + 1].content) > chunk_size

\* the step reads a line that is no header of another category
PlainLineStep ==
    /\ phase = "chunk"
    /\ pos <= Len(text_content)
    /\ ~AtCategoryChange

\* the buffer with the line read by the step appended to it
BufferWithLine == Append(current_chunk, text_content[pos].text)

\* the buffer as the step leaves it before the size check
StepBuffer == IF AtCategoryChange THEN <<text_content[pos].text>> ELSE BufferWithLine

\* C24: a line that is not a header, or a header of the current category,
\* never changes the current category and, unless the buffer then overflows,
\* is appended to the buffer without any chunk being emitted; so a step
\* without overflow emits a chunk only at a header of another category.
C24_BoundariesOnlyAtChangeOrOverflow ==
    [][/\ PlainLineStep => current_section' = current_section
       /\ (PlainLineStep /\ WordCount(JoinSpace(BufferWithLine)) <= chunk_size) =>
              /\ current_chunk' = BufferWithLine
              /\ chunks' = chunks
       /\ (/\ phase = "chunk"
           /\ pos <= Len(text_content)
           /\ WordCount(JoinSpace(StepBuffer)) <= chunk_size
           /\ Len(chunks') > Len(chunks))
          => /\ AtCategoryChange
             /\ Len(chunks') = Len(chunks) + 1
             /\ chunks'[Len(chunks')].metadata.section_type = current_section
             /\ chunks'[Len(chunks')].metadata.section_type
                    # text_content[pos].section_type
      ]_vars

\* a header line of the current category was appended to a buffer that held a
\* line already, and no chunk was emitted
C24_Witness ==
    /\ phase = "chunk"
    /\ pos = 3
    /\ chunks = <<>>
    /\ text_content[2].is_header
    /\ text_content[2].section_type = current_section
    /\ current_chunk = <<text_content[1].text, text_content[2].text>>

\* the words of a list of strings, in order
RECURSIVE WordsOf(_)
WordsOf(strings) ==
    IF strings = <<>> THEN <<>> ELSE StrSplit(Head(strings)) \o WordsOf(Tail(strings))

\* C25: with chunk_size >= 1, the words of the text chunks emitted so far
\* followed by the words of the buffer are the words of the lines read so
\* far, in order; at the end the text chunks hold exactly the words of all lines.
C25_ContentPreservation ==
    chunk_size >= 1 =>
        LET text_chunks == SelectSeq(chunks, IsTextChunk)
            emitted == WordsOf([k \in 1..Len(text_chunks) |-> text_chunks[k].content])
        IN  /\ phase = "chunk" =>
                   emitted \o WordsOf(current_chunk)
                       = WordsOf([k \in 1..(pos - 1) |-> text_content[k].text])
            /\ phase = "chunked" =>
                   emitted = WordsOf([k \in 1..Len(text_content) |-> text_content[k].text])

\* a finished run with a header switch and an overflow split
C25_Witness ==
    /\ phase = "chunked"
    /\ chunk_size >= 1
    /\ Len(text_content) = 3
    /\ \E k \in 1..(Len(chunks) - 1) :
           /\ chunks[k].type = "text" /\ chunks[k + 1].type = "text"
           /\ chunks[k].content # "" /\ chunks[k + 1].content # ""
           /\ chunks[k].metadata.section_type = chunks[k + 1].metadata.section_type
    /\ \E k \in 1..(Len(chunks) - 1) :
           /\ chunks[k].type = "text" /\ chunks[k + 1].type = "text"
           /\ chunks[k].metadata.section_type # chunks[k + 1].metadata.section_type

\* C26 as stated: with chunk_size >= 1, every text chunk has non-empty content.
C26_NoEmptyChunks ==
    chunk_size >= 1 =>
        \A k \in TextChunkIndexes(chunks) :
            /\ chunks[k].content # ""
            /\ chunks[k].metadata.word_count >= 1

-----------------------------------------------------------------------------
(* Document pipeline: extraction, embedding, storage, registry *)

DefaultChunkSize == 512

\* str(i) of a non-negative integer
RECURSIVE IntToStr(_)
IntToStr(i) ==
    IF i < 10 THEN Char("0123456789", i + 1)
    ELSE IntToStr(i \div 10) \o Char("0123456789", (i % 10) + 1)

\* extract_text_from_pdf on a document given as its pages, each with its
\* stripped non-empty lines and its tables.  fail.kind is "none", "open" (the
\* file cannot be opened) or "page" (the extraction of page fail.page raises);
\* the exception is caught inside and what was collected so far is returned.
RECURSIVE PageItems(_, _)
PageItems(doc, n) ==
    IF n = 0 THEN <<>>
    ELSE PageItems(doc, n - 1) \o
         [k \in 1..Len(doc[n].lines) |-> LineItem(doc[n].lines[k])]

RECURSIVE PageTables(_, _)
PageTables(doc, n) ==
    IF n = 0 THEN <<>>
    ELSE PageTables(doc, n - 1) \o
         [k \in 1..Len(doc[n].tables) |->
             [page |-> n, table_index |-> k - 1, text |-> doc[n].tables[k]]]

ExtractTextFromPdf(doc, fail) ==
    LET done == IF fail.kind = "none" THEN Len(doc)
                ELSE IF fail.kind = "open" THEN 0
                ELSE fail.page - 1
    IN  [text_content |-> PageItems(doc, done),
         tables |-> PageTables(doc, done),
         total_pages |-> IF fail.kind = "open" THEN 0 ELSE Len(doc)]

NoFail == [kind |-> "none", page |-> 0]

FailPoints(doc) ==
    {NoFail, [kind |-> "open", page |-> 0]} \cup {[kind |-> "page", page |-> n] : n \in 1..Len(doc)}

(* The semantic score of the embedder.  A score is the fraction num / den  *)
(* with den >= 1; the boost 0.1 per digit run is counted in tenths.        *)

insurance_terms ==
    {"premium", "deductible", "coverage", "exclusion", "claim", "policyholder",
     "beneficiary", "endorsement", "rider", "underwriting", "actuary", "indemnity",
     "subrogation"}

legal_words == {"shall", "must", "required", "obligation", "liability"}

\* len(re.findall(r'\d+', text)): the maximal runs of digits
DigitRuns(text) ==
    Cardinality({i \in 1..Len(text) :
                    /\ Char(text, i) \in Digits
                    /\ (i = 1 \/ Char(text, i - 1) \notin Digits)})

\* sum(1 for term in words if term in text_lower)
CountPresent(words, text_lower) ==
    Cardinality({w \in words : Contains(text_lower, w)})

\* _calculate_semantic_score
CalculateSemanticScore_Unclamped(text) ==
    LET text_lower == StrLower(text)
        term_score == CountPresent(insurance_terms, text_lower)
        legal_boost == CountPresent(legal_words, text_lower)
        numerical_boost == DigitRuns(text)
        words == IF WordCount(text) > 1 THEN WordCount(text) ELSE 1
    IN  [num |-> 10 * (term_score + legal_boost) + numerical_boost, den |-> 10 * words]

CalculateSemanticScore(text) ==
    LET text_lower == StrLower(text)
        term_score == CountPresent(insurance_terms, text_lower)
        legal_boost == CountPresent(legal_words, text_lower)
        numerical_boost == DigitRuns(text)
        words == IF WordCount(text) > 1 THEN WordCount(text) ELSE 1
        total_score == [num |-> 10 * (term_score + legal_boost) + numerical_boost,
                        den |-> 10 * words]
    IN  IF total_score.num < total_score.den THEN total_score ELSE [num |-> 1, den |-> 1]

(* _extract_features.  A pattern tried at index i of s gives the index     *)
(* after its match there, as re does (greedy, leftmost), and 0 when the    *)
(* pattern does not match at i.                                            *)

IsDigitAt(s, i) == i >= 1 /\ i <= Len(s) /\ Char(s, i) \in Digits

\* str.count(sub) over the start indices lo..hi, the search standing at
\* index from: an occurrence beginning at or after it is counted and moves
\* the search behind it (the range is scanned left half first)
RECURSIVE CountFrom(_, _, _, _, _)
CountFrom(s, sub, lo, hi, from) ==
    IF lo > hi THEN [n |-> 0, pos |-> from]
    ELSE IF lo = hi
    THEN (IF lo >= from /\ SubSeq(s, lo, lo + Len(sub) - 1) = sub
          THEN [n |-> 1, pos |-> lo + Len(sub)]
          ELSE [n |-> 0, pos |-> from])
    ELSE LET mid == (lo + hi) \div 2
             left == CountFrom(s, sub, lo, mid, from)
             right == CountFrom(s, sub, mid + 1, hi, left.pos)
         IN  [n |-> left.n + right.n, pos |-> right.pos]

StrCount(s, sub) == CountFrom(s, sub, 1, Len(s) - Len(sub) + 1, 1).n

AmountMatch_NoCents(s, i) ==
    LET e == SkipWhile(s, i + 1, Digits \cup {","})
    IN  IF i > Len(s) \/ Char(s, i) # "$" \/ e = i + 1 THEN 0
        ELSE e

\* r'\$[\d,]+(?:\.\d{2})?'
AmountMatch(s, i) ==
    LET e == SkipWhile(s, i + 1, Digits \cup {","})
    IN  IF i > Len(s) \/ Char(s, i) # "$" \/ e = i + 1 THEN 0
        ELSE IF /\ e <= Len(s)
                /\ Char(s, e) = "."
                /\ IsDigitAt(s, e + 1)
                /\ IsDigitAt(s, e + 2)
             THEN e + 3
        ELSE e

\* r'\d+(?:\.\d+)?%': the digits are taken greedily, and no shorter take can
\* be followed by '.' or '%'
PercentMatch(s, i) ==
    LET e == SkipWhile(s, i, Digits)
        f == SkipWhile(s, e + 1, Digits)
    IN  IF e = i THEN 0
        ELSE IF /\ e <= Len(s)
                /\ Char(s, e) = "."
                /\ f > e + 1
                /\ f <= Len(s)
                /\ Char(s, f) = "%"
             THEN f + 1
        ELSE IF e <= Len(s) /\ Char(s, e) = "%" THEN e + 1
        ELSE 0

\* r'\d{1,2}[/-]\d{1,2}[/-]\d{2,4}': a and b are the lengths of the first two
\* digit groups (two digits are tried before one), the last group is greedy
DateMatch(s, i) ==
    LET IsSepAt(j) == j <= Len(s) /\ Char(s, j) \in {"/", "-"}
        fits == {ab \in (1..2) \X (1..2) :
                    /\ \A k \in i..(i + ab[1] - 1) : IsDigitAt(s, k)
                    /\ IsSepAt(i + ab[1])
                    /\ \A k \in (i + ab[1] + 1)..(i + ab[1] + ab[2]) : IsDigitAt(s, k)
                    /\ IsSepAt(i + ab[1] + ab[2] + 1)
                    /\ IsDigitAt(s, i + ab[1] + ab[2] + 2)
                    /\ IsDigitAt(s, i + ab[1] + ab[2] + 3)}
        take == CHOOSE ab \in fits : \A o \in fits : ab[1] >= o[1] /\ (ab[1] = o[1] => ab[2] >= o[2])
        y == i + take[1] + take[2] + 2
        e == SkipWhile(s, y, Digits)
    IN  IF fits = {} THEN 0
        ELSE IF e > y + 4 THEN y + 4 ELSE e

MatchEnd(pattern, s, i) ==
    CASE pattern = "amounts" -> AmountMatch(s, i)
      [] pattern = "percentages" -> PercentMatch(s, i)
      [] pattern = "dates" -> DateMatch(s, i)

\* the scan of re.findall over the start indices lo..hi, standing at index
\* from: a match beginning at or after it is taken and moves the search to
\* its end
\* (the range is scanned left half first)
RECURSIVE ScanMatches(_, _, _, _, _)
ScanMatches(pattern, s, lo, hi, from) ==
    IF lo > hi THEN [out |-> <<>>, pos |-> from]
    ELSE IF lo = hi
    THEN (IF lo >= from /\ MatchEnd(pattern, s, lo) # 0
          THEN [out |-> <<SubSeq(s, lo, MatchEnd(pattern, s, lo) - 1)>>,
                pos |-> MatchEnd(pattern, s, lo)]
          ELSE [out |-> <<>>, pos |-> from])
    ELSE LET mid == (lo + hi) \div 2
             left == ScanMatches(pattern, s, lo, mid, from)
             right == ScanMatches(pattern, s, mid + 1, hi, left.pos)
         IN  [out |-> left.out \o right.out, pos |-> right.pos]

\* re.findall(pattern, s) from index i on: the matches from the left, each
\* search going on where the match before ended
FindAll(pattern, s, i) == ScanMatches(pattern, s, i, Len(s), i).out

\* _extract_features; avg_sentence_length is the fraction num / den
ExtractFeatures(text) ==
    LET text_lower == StrLower(text)
        words == WordCount(text)
        sentences == StrCount(text, ".") + 1
    IN  [insurance_terms |-> [term \in insurance_terms |-> StrCount(text_lower, term)],
         amounts |-> FindAll("amounts", text, 1),
         percentages |-> FindAll("percentages", text, 1),
         dates |-> FindAll("dates", text, 1),
         word_count |-> words,
         sentence_count |-> sentences,
         avg_sentence_length |-> [num |-> words, den |-> sentences],
         has_table_data |-> \E i \in 1..Len(text) : Char(text, i) \in Digits,
         has_legal_terms |->
             \E term \in {"shall", "must", "required", "obligation"} :
                 Contains(text_lower, term)]

\* create_embeddings for the chunks that are embedded (the vector itself is a
\* function of the content and is not modelled)
CreateEmbeddings(cs) ==
    [k \in 1..Len(cs) |->
        [content |-> cs[k].content, type |-> cs[k].type, metadata |-> cs[k].metadata,
         features |-> ExtractFeatures(cs[k].content),
         semantic_score |-> CalculateSemanticScore(cs[k].content)]]

\* {**a, **b}
DictMerge(a, b) ==
    [k \in (DOMAIN a) \cup (DOMAIN b) |-> IF k \in DOMAIN b THEN b[k] ELSE a[k]]

ChunkId_FromCount(source_file, i, coll) ==
    source_file \o "_" \o IntToStr(i + Cardinality(DOMAIN coll))

\* the id given to collection.add for chunk i
ChunkId(source_file, i, coll) == source_file \o "_" \o IntToStr(i)

\* the metadata dict _store_chunks builds for chunk i
StoreMetadata(chunk, source_file, i) ==
    DictMerge([source_file |-> source_file,
               chunk_index |-> i,
               chunk_type |-> chunk.type,
               section_type |-> DictGet(chunk.metadata, "section_type", "general"),
               word_count |-> DictGet(chunk.metadata, "word_count", 0)],
              chunk.features)

NoError == [kind |-> "none", at |-> 0]

\* _store_chunks from chunk number i on (1-based; enumerate's index is i - 1).
\* reject_at is the chunk whose insertion the store refuses (0: none); an id
\* already in the collection is ignored or raises, as the installed store does.
RECURSIVE StoreLoop(_, _, _, _, _, _)
StoreLoop(coll, enhanced, source_file, i, reject_at, mode) ==
    IF i > Len(enhanced) THEN [collection |-> coll, error |-> NoError]
    ELSE LET id == ChunkId(source_file, i - 1, coll)
             record == [document |-> enhanced[i].content,
                        metadata |-> StoreMetadata(enhanced[i], source_file, i - 1)]
         IN  IF reject_at = i
             THEN [collection |-> coll, error |-> [kind |-> "store", at |-> i - 1]]
             ELSE IF id \in DOMAIN coll
             THEN IF mode = "raise"
                  THEN [collection |-> coll, error |-> [kind |-> "duplicate", at |-> i - 1]]
                  ELSE StoreLoop(coll, enhanced, source_file, i + 1, reject_at, mode)
             ELSE StoreLoop(coll @@ (id :> record), enhanced, source_file, i + 1,
                            reject_at, mode)

StoreChunks(coll, enhanced, source_file, reject_at, mode) ==
    StoreLoop(coll, enhanced, source_file, 1, reject_at, mode)

\* the documents the directory may hold
PolicyDoc ==
    <<[lines |-> <<"COVERAGE", "It pays.">>, tables |-> <<>>],
      [lines |-> <<"Exclusions apply here.">>, tables |-> <<>>]>>

NoteDoc == <<[lines |-> <<"Stop.">>, tables |-> <<"Limit\t100">>]>>

\* NoteDoc without its table: one chunk where NoteDoc gives two
MemoDoc == <<[lines |-> <<"Stop.">>, tables |-> <<>>]>>

Docs == {PolicyDoc, NoteDoc, MemoDoc}

\* a document whose only page has no text layer and no table
BlankDoc == <<[lines |-> <<>>, tables |-> <<>>]>>

ServiceDocs == {PolicyDoc, NoteDoc, BlankDoc}

AllDocs == Docs \cup ServiceDocs

\* extraction, chunking and feature extraction are functions of the document
\* and of the point where its extraction fails: computed once per document
ExtractedData ==
    [doc \in AllDocs |-> [fail \in FailPoints(doc) |-> ExtractTextFromPdf(doc, fail)]]

BuiltChunks ==
    [doc \in AllDocs |-> [fail \in FailPoints(doc) |->
        CreateChunks(ExtractedData[doc][fail], DefaultChunkSize)]]

EnhancedChunks ==
    [doc \in AllDocs |-> [fail \in FailPoints(doc) |->
        CreateEmbeddings(BuiltChunks[doc][fail])]]

\* the chunks one run of the pipeline builds for a document
RunChunks(doc, fail) == BuiltChunks[doc][fail]

\* the registry entry is written before the chunks are stored
TryBlock_RegistryFirst(coll, registry, file, doc, fail, embed_fail, reject_at, mode) ==
    LET extracted_data == ExtractedData[doc][fail]
        cs == BuiltChunks[doc][fail]
        enhanced_chunks == EnhancedChunks[doc][fail]
        stored == StoreChunks(coll, enhanced_chunks, file, reject_at, mode)
        written == (file :> [chunks |-> enhanced_chunks,
                             metadata |-> [total_pages |-> extracted_data.total_pages,
                                           total_chunks |-> Len(enhanced_chunks)]])
                   @@ registry
    IN  IF embed_fail \in 1..Len(cs)
        THEN [collection |-> coll, processed_docs |-> registry,
              error |-> [kind |-> "embed", at |-> embed_fail - 1]]
        ELSE [collection |-> stored.collection, processed_docs |-> written,
              error |-> stored.error]

\* the try block of process_pdfs for one file: what it leaves in the store and
\* in the registry, and the exception it ended with (kind "none": it completed)
TryBlock(coll, registry, file, doc, fail, embed_fail, reject_at, mode) ==
    LET extracted_data == ExtractedData[doc][fail]
        cs == BuiltChunks[doc][fail]
        enhanced_chunks == EnhancedChunks[doc][fail]
        stored == StoreChunks(coll, enhanced_chunks, file, reject_at, mode)
    IN  IF embed_fail \in 1..Len(cs)
        THEN [collection |-> coll, processed_docs |-> registry,
              error |-> [kind |-> "embed", at |-> embed_fail - 1]]
        ELSE IF stored.error.kind # "none"
        THEN [collection |-> stored.collection, processed_docs |-> registry,
              error |-> stored.error]
        ELSE [collection |-> stored.collection,
              processed_docs |->
                  (file :> [chunks |-> enhanced_chunks,
                            metadata |-> [total_pages |-> extracted_data.total_pages,
                                          total_chunks |-> Len(enhanced_chunks)]])
                  @@ registry,
              error |-> NoError]

\* "except Exception as e: logger.error(...)": the loop goes on
AfterIteration_Propagate(error) == IF error.kind = "none" THEN "processing" ELSE "raised"

AfterIteration(error) == "processing"

-----------------------------------------------------------------------------
(* The semantic score applied to one text *)

FeatureFixture == "The premium is $1,200.50 due by 01/15/2024 (10% surcharge)."

\* texts with several matches of one pattern, with matches that stop early
\* and with near misses
FeatureTexts ==
    {FeatureFixture,
     "Pay $5 or $1,000.5 now, not $ 7 or $.50",
     "3.5% then 12% of 1.2.5% and 5 %",
     "1-2-2024, 12/31/99 and 123/4/20001 or 1/2/3",
     "premium Premium PREMIUMS exclusion",
     "$ 5 %"}

\* the texts scored: the lines of the classifier's pool, the empty text, and
\* texts with digit runs, legal words and several terms in one word
ScoreTexts ==
    LinePool \cup
    {"", "7", "1.2", "12 34 5", "claim 7", "coverage", "premium-liability",
     "The insurer shall pay the premium.", "Claim 12/05/2020 must be required 3 times"}
    \cup FeatureTexts

InitScore ==
    /\ raw_lines = <<>>
    /\ text_content = <<>>
    /\ tables = <<>>
    /\ chunk_size = DefaultChunkSize
    /\ chunk_overlap = DefaultChunkOverlap
    /\ pos = 1
    /\ current_chunk = <<>>
    /\ current_section = "general"
    /\ chunks = <<>>
    /\ phase = "score"
    /\ disk = <<>>
    /\ collection = <<>>
    /\ processed_docs = <<>>
    /\ pdf_files = <<>>
    /\ attempted = <<>>
    /\ outcome = <<>>
    /\ add_dup = "ignore"
    /\ CallerAtRest
    /\ ApiAtRest
    /\ score_input \in ScoreTexts
    /\ semantic_score = <<>>
    /\ features = <<>>

\* create_embeddings for one chunk: _extract_features, then
\* _calculate_semantic_score
ScoreText ==
    /\ phase = "score"
    /\ semantic_score = <<>>
    /\ features' = ExtractFeatures(score_input)
    /\ semantic_score' = CalculateSemanticScore(score_input)
    /\ UNCHANGED <<chunker_vars, phase, pipeline_vars, caller_vars, score_input, api_vars>>

NextScore == ScoreText

SpecScore == InitScore /\ [][NextScore]_vars

\* C19: the semantic score of every text, the empty text included, is at
\* least 0 and at most 1.
C19_SemanticScoreBounded ==
    semantic_score # <<>> =>
        /\ semantic_score.den >= 1
        /\ 0 <= semantic_score.num
        /\ semantic_score.num <= semantic_score.den
        /\ score_input = "" => semantic_score.num = 0

\* a text of one word that holds a term and a legal word: 2 / 1 before the
\* clamp, 1 after it
C19_Witness ==
    /\ semantic_score # <<>>
    /\ WordCount(score_input) = 1
    /\ Contains(StrLower(score_input), "premium")
    /\ Contains(StrLower(score_input), "liability")
    /\ semantic_score.num = semantic_score.den

(* What each pattern of _extract_features accepts, stated on a whole word. *)
AllDigits(w, a, b) == \A k \in a..b : Char(w, k) \in Digits

IsAmount(w) ==
    /\ Len(w) >= 2
    /\ Char(w, 1) = "$"
    /\ \E k \in 2..Len(w) :
          /\ \A j \in 2..k : Char(w, j) \in Digits \cup {","}
          /\ \/ k = Len(w)
             \/ Len(w) = k + 3 /\ Char(w, k + 1) = "." /\ AllDigits(w, k + 2, k + 3)

IsPercentage(w) ==
    /\ Len(w) >= 2
    /\ Char(w, Len(w)) = "%"
    /\ \E k \in 1..(Len(w) - 1) :
          /\ AllDigits(w, 1, k)
          /\ \/ k = Len(w) - 1
             \/ k + 2 <= Len(w) - 1 /\ Char(w, k + 1) = "." /\ AllDigits(w, k + 2, Len(w) - 1)

IsDate(w) ==
    \E a \in 1..2, b \in 1..2, c \in 2..4 :
        /\ Len(w) = a + b + c + 2
        /\ AllDigits(w, 1, a)
        /\ Char(w, a + 1) \in {"/", "-"}
        /\ AllDigits(w, a + 2, a + b + 1)
        /\ Char(w, a + b + 2) \in {"/", "-"}
        /\ AllDigits(w, a + b + 3, Len(w))

Accepts(pattern, w) ==
    CASE pattern = "amounts" -> IsAmount(w)
      [] pattern = "percentages" -> IsPercentage(w)
      [] pattern = "dates" -> IsDate(w)

\* no part of s between the indexes a and b is accepted by the pattern
NoMatchWithin(pattern, s, a, b) ==
    \A i \in a..b : \A j \in i..b : ~Accepts(pattern, SubSeq(s, i, j))

\* list is, from index i of s on, a sequence of accepted parts of s in text
\* order, none overlapping, with nothing accepted between or after them
RECURSIVE ListsTheMatches(_, _, _, _)
ListsTheMatches(pattern, list, s, i) ==
    IF list = <<>> THEN NoMatchWithin(pattern, s, i, Len(s))
    ELSE /\ Accepts(pattern, list[1])
         /\ \E p \in i..(Len(s) - Len(list[1]) + 1) :
               /\ SubSeq(s, p, p + Len(list[1]) - 1) = list[1]
               /\ NoMatchWithin(pattern, s, i, p - 1)
               /\ ListsTheMatches(pattern, Tail(list), s, p + Len(list[1]))

\* C23: on the fixture the extractor returns the amount "$1,200.50", the
\* percentage "10%", the date "01/15/2024" and counts the term "premium"
\* once; on every text each of the three lists holds, in text order, the
\* non-overlapping matches of its pattern and leaves no match out.
C23_FeatureExtraction ==
    features # <<>> =>
        /\ score_input = FeatureFixture =>
              /\ features.amounts = <<"$1,200.50">>
              /\ features.percentages = <<"10%">>
              /\ features.dates = <<"01/15/2024">>
              /\ features.insurance_terms["premium"] = 1
        /\ \A pattern \in {"amounts", "percentages", "dates"} :
              ListsTheMatches(pattern, features[pattern], score_input, 1)

\* the fixture went through the extractor
C23_Witness ==
    /\ score_input = FeatureFixture
    /\ features # <<>>
    /\ Len(features.amounts) = 1
    /\ Len(features.dates) = 1

-----------------------------------------------------------------------------
(* Retrieval: query and the store's nearest-neighbour search.  Distances   *)
(* and similarity scores are counted in tenths, so that 0.2 is 2 and the   *)
(* 1 of "1 - distance" is One.  An optional argument is a sequence of no   *)
(* element (None) or of one element (the value given).                     *)

One == 10

\* the distances the store may report: 0.2 and 1.3 (cosine distance is in [0, 2])
Distances == {2, 13}

MaxTopK == 2

\* "if filter_metadata: where_clause = filter_metadata": None and the empty
\* dict are falsy
WhereClause_Dropped(filter_metadata) == <<>>

WhereClause(filter_metadata) ==
    IF filter_metadata # <<>> /\ DOMAIN filter_metadata[1] # {}
    THEN filter_metadata
    ELSE <<>>

\* the store's where: equality on every key of the mapping
Satisfies(metadata, where) ==
    \A key \in DOMAIN where : key \in DOMAIN metadata /\ metadata[key] = where[key]

Matches(coll, where_clause) ==
    {id \in DOMAIN coll :
        where_clause = <<>> \/ Satisfies(coll[id].metadata, where_clause[1])}

\* the sequences of min(n, |S|) distinct elements of S
RECURSIVE Arrangements(_, _)
Arrangements(S, n) ==
    IF n = 0 \/ S = {} THEN {<<>>}
    ELSE UNION {{<<x>> \o q : q \in Arrangements(S \ {x}, n - 1)} : x \in S}

\* the distances of k matches, nearest first
DistanceSeqs(k) ==
    {d \in [1..k -> Distances] : \A i \in 1..(k - 1) : d[i] <= d[i + 1]}

\* collection.query(n_results, where, include documents, metadatas, distances)
\* for n_results > 0: the replies the store may give, the embeddings not being
\* modelled.  Each list is the inner list for the one query embedding.
CollectionQuery(coll, n_results, where_clause) ==
    UNION {{[where |-> where_clause,
             n_results |-> n_results,
             ids |-> q,
             documents |-> [i \in 1..Len(q) |-> coll[q[i]].document],
             metadatas |-> [i \in 1..Len(q) |-> coll[q[i]].metadata],
             distances |-> d] : d \in DistanceSeqs(Len(q))} :
           q \in Arrangements(Matches(coll, where_clause), n_results)}

\* "1 - results['distances'][0][i]"
SimilarityScore_Distance(distance) == distance

SimilarityScore(distance) == One - distance

\* "Format results": i runs from 0, the lists of the model from 1
FormatResults_Placeholder(reply) ==
    IF reply.documents = <<>>
    THEN <<[content |-> "", metadata |-> <<>>, similarity_score |-> 0, rank |-> 1]>>
    ELSE [k \in 1..Len(reply.documents) |->
             [content |-> reply.documents[k],
              metadata |-> reply.metadatas[k],
              similarity_score |-> SimilarityScore(reply.distances[k]),
              rank |-> (k - 1) + 1]]

FormatResults(reply) ==
    [k \in 1..Len(reply.documents) |->
        [content |-> reply.documents[k],
         metadata |-> reply.metadatas[k],
         similarity_score |-> SimilarityScore(reply.distances[k]),
         rank |-> (k - 1) + 1]]

\* the filters given to query: None, {}, and two equality filters
Filters ==
    {<<>>, << <<>> >>, <<[section_type |-> "exclusion"]>>, <<[source_file |-> "b.pdf"]>>}

-----------------------------------------------------------------------------
(* Statistics *)

RECURSIVE SumOfChunks(_, _)
SumOfChunks(registry, names) ==
    IF names = {} THEN 0
    ELSE LET name == CHOOSE f \in names : TRUE
         IN  Len(registry[name].chunks) + SumOfChunks(registry, names \ {name})

\* get_statistics (processed_files is given as the set of the keys; the file
\* size is not modelled)
Statistics_CountStore(registry, coll) ==
    [total_documents |-> Cardinality(DOMAIN registry),
     total_chunks |-> Cardinality(DOMAIN coll),
     processed_files |-> DOMAIN registry,
     vector_db_size |-> IF Cardinality(DOMAIN coll) > 0 THEN Cardinality(DOMAIN coll) ELSE 0,
     file_statistics |->
         [name \in DOMAIN registry |->
             [chunks |-> Len(registry[name].chunks),
              pages |-> registry[name].metadata.total_pages]]]

Statistics(registry, coll) ==
    [total_documents |-> Cardinality(DOMAIN registry),
     total_chunks |-> SumOfChunks(registry, DOMAIN registry),
     processed_files |-> DOMAIN registry,
     vector_db_size |-> IF Cardinality(DOMAIN coll) > 0 THEN Cardinality(DOMAIN coll) ELSE 0,
     file_statistics |->
         [name \in DOMAIN registry |->
             [chunks |-> Len(registry[name].chunks),
              pages |-> registry[name].metadata.total_pages]]]

-----------------------------------------------------------------------------
(* The pipeline run on a directory of documents *)

FileNames == <<"a.pdf", "b.pdf">>

Files == {FileNames[k] : k \in 1..Len(FileNames)}

Init ==
    /\ raw_lines = <<>>
    /\ text_content = <<>>
    /\ tables = <<>>
    /\ chunk_size = DefaultChunkSize
    /\ chunk_overlap = DefaultChunkOverlap
    /\ pos = 1
    /\ current_chunk = <<>>
    /\ current_section = "general"
    /\ chunks = <<>>
    /\ phase = "idle"
    /\ disk \in [Files -> Docs]
    /\ collection = <<>>
    /\ processed_docs = <<>>
    /\ pdf_files = <<>>
    /\ attempted = <<>>
    /\ outcome = <<>>
    /\ add_dup \in {"ignore", "raise"}
    /\ CallerAtRest
    /\ EmbedderAtRest
    /\ ApiAtRest

\* process_pdfs up to the loop: the directory listing
StartProcessPdfs ==
    /\ phase = "idle"
    /\ CallerAtRest
    /\ pdf_files' = FileNames
    /\ attempted' = <<>>
    /\ outcome' = <<>>
    /\ phase' = "processing"
    /\ UNCHANGED <<chunker_vars, disk, collection, processed_docs, add_dup, caller_vars,
                   embedder_vars, api_vars>>

\* one iteration of "for pdf_file in pdf_files"
ProcessFile ==
    /\ phase = "processing"
    /\ pdf_files # <<>>
    /\ LET file == Head(pdf_files)
           doc == disk[file]
       IN  \E fail \in FailPoints(doc) :
           \E embed_fail \in 0..Len(RunChunks(doc, fail)) :
           \E reject_at \in 0..Len(RunChunks(doc, fail)) :
               LET r == TryBlock(collection, processed_docs, file, doc, fail,
                                 embed_fail, reject_at, add_dup)
               IN  /\ collection' = r.collection
                   /\ processed_docs' = r.processed_docs
                   /\ attempted' = Append(attempted, file)
                   /\ outcome' = [file |-> file, extract_error |-> fail, error |-> r.error]
                   /\ phase' = AfterIteration(r.error)
    /\ pdf_files' = Tail(pdf_files)
    /\ UNCHANGED <<chunker_vars, disk, add_dup, caller_vars, embedder_vars, api_vars>>

\* process_pdfs returns
ReturnProcessPdfs ==
    /\ phase = "processing"
    /\ pdf_files = <<>>
    /\ phase' = "idle"
    /\ UNCHANGED <<chunker_vars, disk, collection, processed_docs, pdf_files, attempted,
                   outcome, add_dup, caller_vars, embedder_vars, api_vars>>

\* a document of the directory is replaced between two runs
EditFile ==
    /\ phase = "idle"
    /\ CallerAtRest
    /\ \E file \in Files : \E doc \in Docs :
           /\ doc # disk[file]
           /\ disk' = [disk EXCEPT ![file] = doc]
    /\ UNCHANGED <<chunker_vars, phase, collection, processed_docs, pdf_files, attempted,
                   outcome, add_dup, caller_vars, embedder_vars, api_vars>>

\* query, from its first line to its return.  The store refuses n_results <= 0
\* with a ValueError, which query does not catch.
Query ==
    /\ phase = "idle"
    /\ CallerAtRest
    /\ \E top_k \in 0..MaxTopK : \E filter_metadata \in Filters :
           LET where_clause == WhereClause(filter_metadata)
               call == [top_k |-> top_k, filter_metadata |-> filter_metadata]
           IN  IF top_k <= 0
               THEN /\ store_reply' = <<>>
                    /\ answer' = [call |-> call, error |-> "ValueError", results |-> <<>>]
               ELSE \E reply \in CollectionQuery(collection, top_k, where_clause) :
                        /\ store_reply' = reply
                        /\ answer' = [call |-> call, error |-> "none",
                                      results |-> FormatResults(reply)]
    /\ UNCHANGED <<chunker_vars, phase, pipeline_vars, stats, embedder_vars, api_vars>>

\* get_statistics
GetStatistics ==
    /\ phase = "idle"
    /\ CallerAtRest
    /\ stats' = Statistics(processed_docs, collection)
    /\ UNCHANGED <<chunker_vars, phase, pipeline_vars, store_reply, answer, embedder_vars, api_vars>>

\* the caller is done with the value query or get_statistics returned
CallerContinues ==
    /\ ~CallerAtRest
    /\ store_reply' = <<>>
    /\ answer' = <<>>
    /\ stats' = <<>>
    /\ UNCHANGED <<chunker_vars, phase, pipeline_vars, embedder_vars, api_vars>>

Next == StartProcessPdfs \/ ProcessFile \/ ReturnProcessPdfs \/ EditFile

\* the system in service: batches of process_pdfs, queries and statistics
NextService ==
    \/ StartProcessPdfs
    \/ ProcessFile
    \/ ReturnProcessPdfs
    \/ Query
    \/ GetStatistics
    \/ CallerContinues

InitService ==
    /\ raw_lines = <<>>
    /\ text_content = <<>>
    /\ tables = <<>>
    /\ chunk_size = DefaultChunkSize
    /\ chunk_overlap = DefaultChunkOverlap
    /\ pos = 1
    /\ current_chunk = <<>>
    /\ current_section = "general"
    /\ chunks = <<>>
    /\ phase = "idle"
    /\ disk \in [Files -> ServiceDocs]
    /\ collection = <<>>
    /\ processed_docs = <<>>
    /\ pdf_files = <<>>
    /\ attempted = <<>>
    /\ outcome = <<>>
    /\ add_dup \in {"ignore", "raise"}
    /\ CallerAtRest
    /\ EmbedderAtRest
    /\ ApiAtRest

SpecService == InitService /\ [][NextService]_vars

Spec == Init /\ [][Next]_vars

-----------------------------------------------------------------------------
(* Claims about the document pipeline *)

\* the ids of the records a collection holds for a source file
RecordsOf(coll, file) == {id \in DOMAIN coll : coll[id].metadata.source_file = file}

\* "<source_filename>_<chunk_index>"
IdString(file, i) == file \o "_" \o IntToStr(i)

\* the step is one iteration of the loop of process_pdfs
IterationStep == phase = "processing" /\ pdf_files # <<>>

KeyFields == {"source_file", "chunk_index", "chunk_type", "section_type", "word_count"}

\* C6: a run that processes a file for the first time persists exactly the ids
\* <file>_0, <file>_1, ... in emission order, each with the metadata of its
\* chunk; a run that processes the file again with the content of its last
\* completed run leaves the same ids and the same metadata persisted.
C6_IdempotentChunkIds ==
    [][IterationStep =>
         LET file == Head(pdf_files)
             cs == RunChunks(disk[file], outcome'.extract_error)
             n == Len(cs)
         IN  /\ (RecordsOf(collection, file) = {} /\ outcome'.error.kind = "none") =>
                   /\ RecordsOf(collection', file) = {IdString(file, i) : i \in 0..(n - 1)}
                   /\ \A i \in 0..(n - 1) :
                          LET m == collection'[IdString(file, i)].metadata
                          IN  /\ m.source_file = file
                              /\ m.chunk_index = i
                              /\ m.chunk_type = cs[i + 1].type
                              /\ m.section_type = IF cs[i + 1].type = "text"
                                                  THEN cs[i + 1].metadata.section_type
                                                  ELSE "general"
                              /\ m.word_count = WordCount(cs[i + 1].content)
             /\ (/\ file \in DOMAIN processed_docs
                 /\ Len(processed_docs[file].chunks) = n
                 /\ \A k \in 1..n :
                        /\ processed_docs[file].chunks[k].content = cs[k].content
                        /\ processed_docs[file].chunks[k].type = cs[k].type
                        /\ processed_docs[file].chunks[k].metadata = cs[k].metadata) =>
                   /\ \A i \in 0..(n - 1) : IdString(file, i) \in DOMAIN collection'
                   /\ \A id \in RecordsOf(collection', file) :
                          /\ id \in RecordsOf(collection, file)
                          /\ \A key \in KeyFields :
                                 collection'[id].metadata[key] = collection[id].metadata[key]
      ]_vars

\* a second run of a file of two chunks whose registry entry is the one of the
\* earlier run of the same content: the store refused the known id
C6_Witness ==
    /\ outcome # <<>>
    /\ outcome.error.kind = "duplicate"
    /\ outcome.extract_error = NoFail
    /\ outcome.file \in DOMAIN processed_docs
    /\ processed_docs[outcome.file].chunks = EnhancedChunks[disk[outcome.file]][NoFail]
    /\ Len(processed_docs[outcome.file].chunks) = 2
    /\ \A i \in 0..1 : IdString(outcome.file, i) \in DOMAIN collection

\* C7 as stated: when a file is processed while the collection already holds
\* records with its chunk ids (and neither the embedding nor the store fails
\* for another reason), the run completes without error and every such record
\* is replaced by the chunk of the new run.
C7_ReprocessingOverwrites ==
    [][IterationStep =>
         LET file == Head(pdf_files)
             cs == RunChunks(disk[file], outcome'.extract_error)
             known == {i \in 0..(Len(cs) - 1) : IdString(file, i) \in DOMAIN collection}
         IN  (known # {} /\ outcome'.error.kind \in {"none", "duplicate"}) =>
                 /\ outcome'.error.kind = "none"
                 /\ \A i \in known :
                        /\ collection'[IdString(file, i)].document = cs[i + 1].content
                        /\ collection'[IdString(file, i)].metadata
                               = StoreMetadata(CreateEmbeddings(cs)[i + 1], file, i)
      ]_vars

\* C8: process_pdfs never ends with an exception, and every file of the batch
\* is attempted in order whatever happened to the files before it.
C8_BatchFailureIsolation ==
    /\ phase \in {"idle", "processing"}
    /\ phase = "processing" => attempted \o pdf_files = FileNames
    /\ (phase = "idle" /\ attempted # <<>>) => attempted = FileNames

\* a batch has returned: its first file failed in every run so far, and the
\* second file was processed to the end after it
C8_Witness ==
    /\ phase = "idle"
    /\ attempted = FileNames
    /\ FileNames[1] \notin DOMAIN processed_docs
    /\ outcome.file = FileNames[2]
    /\ outcome.error.kind = "none"
    /\ FileNames[2] \in DOMAIN processed_docs

\* C9 as stated: when the extraction of a document fails, none of its chunks
\* is stored and no registry entry is written for it.
C9_ExtractionFailureSkips ==
    [][(IterationStep /\ outcome'.extract_error.kind # "none") =>
          /\ collection' = collection
          /\ processed_docs' = processed_docs
      ]_vars

\* C10 as stated: when the store rejects one chunk, the other chunks of the
\* document are still inserted and the document appears in the registry.
C10_StoreFailurePerChunk ==
    [][(IterationStep /\ outcome'.error.kind = "store") =>
          LET file == Head(pdf_files)
              cs == RunChunks(disk[file], outcome'.extract_error)
          IN  /\ \A i \in (0..(Len(cs) - 1)) \ {outcome'.error.at} :
                     IdString(file, i) \in DOMAIN collection'
              /\ file \in DOMAIN processed_docs'
      ]_vars

\* C11 as stated: when the embedding call fails for one chunk of a document,
\* that chunk is not stored and every other chunk of the document is stored.
C11_EmbeddingFailureDropsChunkOnly ==
    [][(IterationStep /\ outcome'.error.kind = "embed") =>
          LET file == Head(pdf_files)
              cs == RunChunks(disk[file], outcome'.extract_error)
          IN  \A i \in 0..(Len(cs) - 1) :
                  (i # outcome'.error.at) <=> (IdString(file, i) \in DOMAIN collection')
      ]_vars

\* C27: in every reachable state a file of the registry with n chunks has the
\* records <file>_0 .. <file>_(n-1) in the store, and an iteration whose
\* embedding or storing raised leaves the registry as it was.
C27_RegistryImpliesStored ==
    /\ [](\A file \in DOMAIN processed_docs :
             \A i \in 0..(Len(processed_docs[file].chunks) - 1) :
                 IdString(file, i) \in DOMAIN collection)
    /\ [][(IterationStep /\ outcome'.error.kind # "none") =>
              processed_docs' = processed_docs
        ]_vars

\* the store refused the second chunk of a file that was never registered,
\* after its first chunk went in, while the other file is registered with its
\* two chunks
C27_Witness ==
    /\ outcome # <<>>
    /\ outcome.error = [kind |-> "store", at |-> 1]
    /\ outcome.file \notin DOMAIN processed_docs
    /\ IdString(outcome.file, 0) \in DOMAIN collection
    /\ \E file \in DOMAIN processed_docs : Len(processed_docs[file].chunks) = 2

\* C28 as stated: when a file of the registry is processed again to the end
\* and its document now yields fewer chunks than the registry entry holds,
\* the store afterwards holds for the file exactly the records of this run,
\* as many as the new registry entry counts.
C28_NoStaleRecords ==
    [][(/\ IterationStep
        /\ Head(pdf_files) \in DOMAIN processed_docs
        /\ outcome'.extract_error = NoFail
        /\ outcome'.error.kind = "none"
        /\ Len(RunChunks(disk[Head(pdf_files)], NoFail))
               < Len(processed_docs[Head(pdf_files)].chunks)) =>
          LET file == Head(pdf_files)
              n == Len(RunChunks(disk[file], NoFail))
          IN  /\ RecordsOf(collection', file) = {IdString(file, i) : i \in 0..(n - 1)}
              /\ Cardinality(RecordsOf(collection', file))
                     = Len(processed_docs'[file].chunks)
      ]_vars

\* C17: a run of a document whose extraction gives no line and no table
\* builds no chunk, ends without error and leaves the store as it was.
C17_EmptyDocument ==
    [][IterationStep =>
         LET file == Head(pdf_files)
             extracted_data == ExtractedData[disk[file]][outcome'.extract_error]
         IN  (extracted_data.text_content = <<>> /\ extracted_data.tables = <<>>) =>
                 /\ RunChunks(disk[file], outcome'.extract_error) = <<>>
                 /\ outcome'.error.kind = "none"
                 /\ collection' = collection
      ]_vars

\* the run of a blank document, extracted without failure, after a document
\* with chunks was stored
C17_Witness ==
    /\ outcome # <<>>
    /\ disk[outcome.file] = BlankDoc
    /\ outcome.extract_error = NoFail
    /\ outcome.error.kind = "none"
    /\ outcome.file \in DOMAIN processed_docs
    /\ processed_docs[outcome.file].chunks = <<>>
    /\ RecordsOf(collection, outcome.file) = {}
    /\ collection # <<>>

-----------------------------------------------------------------------------
(* Claims about retrieval and statistics *)

\* query has returned its results to the caller
QueryReturned == answer # <<>> /\ answer.error = "none"

\* C12: the i-th result has rank i counted from 1 and similarity_score 1 minus
\* the i-th distance of the store (0.2 gives 0.8); there are as many results as
\* the store returned, each with the store's content and metadata.
C12_SimilarityAndRank ==
    QueryReturned =>
        /\ Len(answer.results) = Len(store_reply.ids)
        /\ \A i \in 1..Len(store_reply.ids) :
               /\ answer.results[i].rank = i
               /\ answer.results[i].similarity_score + store_reply.distances[i] = 10
               /\ store_reply.distances[i] = 2 => answer.results[i].similarity_score = 8
               /\ answer.results[i].content = store_reply.documents[i]
               /\ answer.results[i].metadata = store_reply.metadatas[i]
               /\ answer.results[i].content = collection[store_reply.ids[i]].document
               /\ answer.results[i].metadata = collection[store_reply.ids[i]].metadata

\* two results, the first at distance 0.2 and the second at distance 1.3
C12_Witness ==
    /\ QueryReturned
    /\ Len(answer.results) = 2
    /\ store_reply.distances = <<2, 13>>
    /\ answer.results[1].similarity_score = 8
    /\ answer.results[2].similarity_score = -3
    /\ answer.results[2].rank = 2

\* the records of a collection that agree with a filter on each of its keys
\* (every record, when the filter is absent or empty)
FilterMatches(coll, filter_metadata) ==
    {id \in DOMAIN coll :
        filter_metadata # <<>> =>
            \A key \in DOMAIN filter_metadata[1] :
                coll[id].metadata[key] = filter_metadata[1][key]}

\* a call of query with top_k >= 1 has ended
QueryEnded == answer # <<>> /\ answer.call.top_k >= 1

\* C13: a query (top_k >= 1) on a store that holds no chunk, or no chunk
\* matching the filter, returns the empty sequence and does not raise.
C13_EmptyCorpusQuery ==
    (QueryEnded /\ FilterMatches(collection, answer.call.filter_metadata) = {}) =>
        /\ answer.error = "none"
        /\ answer.results = <<>>

\* a query on the empty store
C13_Witness ==
    /\ QueryEnded
    /\ collection = <<>>
    /\ answer.error = "none"
    /\ answer.results = <<>>

\* a filtered query on a store that holds records of which none matches
C13_NoMatchWitness ==
    /\ QueryEnded
    /\ collection # <<>>
    /\ answer.call.filter_metadata = <<[section_type |-> "exclusion"]>>
    /\ FilterMatches(collection, answer.call.filter_metadata) = {}
    /\ answer.results = <<>>

\* C14: the store receives the filter as given (no restriction for an absent
\* or empty filter), and a query filtered on section_type exclusion returns
\* no result whose stored section_type is another one.
C14_FilterCorrectness ==
    QueryReturned =>
        LET filter_metadata == answer.call.filter_metadata
        IN  /\ (filter_metadata = <<>> \/ filter_metadata = << <<>> >>)
                   => store_reply.where = <<>>
            /\ (filter_metadata # <<>> /\ filter_metadata # << <<>> >>)
                   => store_reply.where = filter_metadata
            /\ filter_metadata = <<[section_type |-> "exclusion"]>> =>
                   \A i \in 1..Len(answer.results) :
                       /\ answer.results[i].metadata.section_type = "exclusion"
                       /\ collection[store_reply.ids[i]].metadata.section_type = "exclusion"

\* a query filtered on exclusion returned the exclusion chunk of a store that
\* also holds chunks of other categories
C14_Witness ==
    /\ QueryReturned
    /\ answer.call.filter_metadata = <<[section_type |-> "exclusion"]>>
    /\ Len(answer.results) >= 1
    /\ \E id \in DOMAIN collection : collection[id].metadata.section_type = "coverage"
    /\ \E id \in DOMAIN collection : collection[id].metadata.section_type = "general"

RECURSIVE PerFileTotal(_, _)
PerFileTotal(file_statistics, names) ==
    IF names = {} THEN 0
    ELSE LET name == CHOOSE f \in names : TRUE
         IN  file_statistics[name].chunks + PerFileTotal(file_statistics, names \ {name})

\* C20: get_statistics changes neither the registry nor the store, and reports
\* total_documents = number of registry entries and total_chunks = sum of the
\* per-file chunk counts.
C20_StatisticsPureView ==
    [][(stats = <<>> /\ stats' # <<>>) =>
          /\ processed_docs' = processed_docs
          /\ collection' = collection
          /\ stats'.total_documents = Cardinality(DOMAIN processed_docs)
          /\ DOMAIN stats'.file_statistics = DOMAIN processed_docs
          /\ \A name \in DOMAIN processed_docs :
                 stats'.file_statistics[name].chunks = Len(processed_docs[name].chunks)
          /\ stats'.total_chunks
                 = PerFileTotal(stats'.file_statistics, DOMAIN processed_docs)
      ]_vars

\* statistics taken when the registry holds a document of two chunks and the
\* store also holds a record of a run that failed, so that the counts differ
C20_Witness ==
    /\ stats # <<>>
    /\ stats.total_documents = 1
    /\ stats.total_chunks = 2
    /\ stats.vector_db_size = 3


-----------------------------------------------------------------------------
(* The simple and the full chunker on the same input *)

TextChunksOf(cs) == SelectSeq(cs, LAMBDA c : c.type = "text")

\* the input of the run, as extract_text_with_structure of the full variant
\* hands it over: the same lines through its own classifier (computed once
\* per line), and every table with the name of the method that found it
PolicyLineItems == [line \in ChunkLines |-> PolicyLineItem(line)]

PolicyExtractedData ==
    [text_content |-> [k \in 1..Len(text_content) |-> PolicyLineItems[text_content[k].text]],
     tables |-> [k \in 1..Len(tables) |-> DictMerge(tables[k], [method |-> "pdfplumber"])]]

\* the two classifiers on every line of the classifier's pool
ClassifiersAgreeOnPool ==
    \A line \in LinePool \cup ChunkLines :
        /\ PolicyIsSectionHeader(line) = IsSectionHeader(line)
        /\ PolicyClassifySection(line) = ClassifySection(line)

\* C29: the full chunker classifies every line and detects every header as
\* the simple one does, and on the same lines and chunk_size its text chunks
\* are those of the simple chunker: same content, section_type and
\* word_count, in the same order.
C29_ChunkersEquivalent ==
    /\ ClassifiersAgreeOnPool
    /\ phase = "chunked" =>
          LET data == PolicyExtractedData
          IN  /\ data.text_content = text_content
              /\ TextChunksOf(CreateSemanticChunks(data, chunk_size)) = TextChunksOf(chunks)

\* a run with a header line, an overflow split and tables, whose table
\* chunks differ between the variants while the text chunks do not
C29_Witness ==
    /\ phase = "chunked"
    /\ chunk_size >= 1
    /\ tables # <<>>
    /\ \E k \in 1..Len(text_content) : text_content[k].is_header
    /\ Len(TextChunksOf(chunks)) > Len(text_content)
    /\ CreateSemanticChunks(PolicyExtractedData, chunk_size) # chunks


-----------------------------------------------------------------------------
(* The API of api_backend.py.  The class behind rag_system is imported     *)
(* from a module that is not part of the sources, so what its methods      *)
(* return or raise is an input of each call: "met" names what the calls of *)
(* one handler met.  A response is the status code with the body.          *)

NoResultsText == "No relevant information found in the policy documents."

\* str.strip()
StrStrip(s) ==
    LET b == SkipWhile(s, 1, Whitespace)
        e == CHOOSE j \in 0..Len(s) :
                 /\ j = 0 \/ Char(s, j) \notin Whitespace
                 /\ \A k \in (j + 1)..Len(s) : Char(s, k) \in Whitespace
    IN  SubSeq(s, b, e)

\* "\n".join(list)
RECURSIVE JoinLines(_)
JoinLines(list) ==
    IF list = <<>> THEN ""
    ELSE IF Len(list) = 1 THEN list[1]
    ELSE list[1] \o "\n" \o JoinLines(Tail(list))

\* InsuranceRAGSystem("./Training_pdfs")
RagObject == [pdf_directory |-> "./Training_pdfs"]

\* what the calls of initialize_rag_system may meet
InitMet ==
    [constructor : {"ok", "raise"},
     has_data : {"true", "false", "raise"},
     process_pdfs : {"ok", "raise"},
     has_data_again : {"true", "false", "raise"},
     get_statistics : {"ok", "raise"}]

\* initialize_rag_system: the global it leaves and the value it returns
\* (with the place it returned from)
InitializeRagSystem(global, db_exists, pdf_found, met) ==
    LET made == <<RagObject>>
        verify == IF met.get_statistics = "raise"
                  THEN [rag_system |-> made, returned |-> FALSE, at |-> "exception"]
                  ELSE [rag_system |-> made, returned |-> TRUE, at |-> "ready"]
    IN  IF ~db_exists
        THEN [rag_system |-> global, returned |-> FALSE, at |-> "no vector database"]
        ELSE IF met.constructor = "raise"
        THEN [rag_system |-> global, returned |-> FALSE, at |-> "exception"]
        ELSE IF met.has_data = "raise"
        THEN [rag_system |-> made, returned |-> FALSE, at |-> "exception"]
        ELSE IF met.has_data = "true" THEN verify
        ELSE IF ~pdf_found
        THEN [rag_system |-> made, returned |-> FALSE, at |-> "no PDF files"]
        ELSE IF met.process_pdfs = "raise" \/ met.has_data_again = "raise"
        THEN [rag_system |-> made, returned |-> FALSE, at |-> "exception"]
        ELSE IF met.has_data_again = "false"
        THEN [rag_system |-> made, returned |-> FALSE, at |-> "not populated"]
        ELSE verify

\* what the HTTP call of generate_answer may meet: a reply of status 200 with
\* its text, a reply of another status, an exception
LlmReplies(question) ==
    {[kind |-> "ok", status_code |-> 200, content |-> " Answer to: " \o question \o "\n"],
     [kind |-> "status", status_code |-> 429, content |-> ""],
     [kind |-> "exception", status_code |-> 0, content |-> "timeout"]}

GenerateAnswer_EmptyOnError(has_key, question, context, reply) ==
    IF ~has_key
    THEN "Error: Groq API key not configured. Please set GROQ_API_KEY in .env file."
    ELSE IF reply.kind = "ok" THEN StrStrip(reply.content)
    ELSE ""

\* GroqClient.generate_answer
GenerateAnswer(has_key, question, context, reply) ==
    IF ~has_key
    THEN "Error: Groq API key not configured. Please set GROQ_API_KEY in .env file."
    ELSE IF reply.kind = "exception" THEN "Error generating answer: " \o reply.content
    ELSE IF reply.status_code = 200 THEN StrStrip(reply.content)
    ELSE "Error generating answer: " \o IntToStr(reply.status_code)

\* "Combine context from top results"
RECURSIVE ContextParts(_)
ContextParts(results) ==
    IF results = <<>> THEN <<>>
    ELSE <<"Source: " \o results[1].metadata.source_file,
           "Section: " \o results[1].metadata.section_type,
           "Content: " \o results[1].content,
           "---">> \o ContextParts(Tail(results))

\* the language model is asked whatever the retrieval returned
AnswerQuestion_AskAnyway(has_key, question, met) ==
    LET context == JoinLines(ContextParts(met.results))
    IN  [answer |-> IF met.results = <<>> THEN NoResultsText
                    ELSE GenerateAnswer(has_key, question, context, met.llm),
         asked |-> <<[question |-> question, context |-> context]>>]

\* run_submission: the body of the loop from "if not results" on; asked holds
\* the calls of generate_answer it made
AnswerQuestion(has_key, question, met) ==
    IF met.results = <<>>
    THEN [answer |-> NoResultsText, asked |-> <<>>]
    ELSE LET context == JoinLines(ContextParts(met.results))
         IN  [answer |-> GenerateAnswer(has_key, question, context, met.llm),
              asked |-> <<[question |-> question, context |-> context]>>]

\* run_submission: the try block.  An exception of rag_system.query ends the
\* loop and the request with status 500.
RECURSIVE AnswerLoop(_, _, _, _, _, _)
AnswerLoop(has_key, questions, met, i, answers, asked) ==
    IF i > Len(questions)
    THEN [status |-> 200, answers |-> answers, asked |-> asked]
    ELSE IF met[i].query = "raise"
    THEN [status |-> 500, answers |-> <<>>, asked |-> asked]
    ELSE LET a == AnswerQuestion(has_key, questions[i], met[i])
         IN  AnswerLoop(has_key, questions, met, i + 1,
                        Append(answers, a.answer), asked \o a.asked)

\* run_submission behind verify_token
RunSubmission(global, has_key, token_valid, questions, met) ==
    IF ~token_valid THEN [status |-> 401, answers |-> <<>>, asked |-> <<>>]
    ELSE IF global = <<>> THEN [status |-> 503, answers |-> <<>>, asked |-> <<>>]
    ELSE IF ~has_key THEN [status |-> 503, answers |-> <<>>, asked |-> <<>>]
    ELSE AnswerLoop(has_key, questions, met, 1, <<>>, <<>>)

\* get_stats and query_rag behind verify_token: the status they answer with
GuardedCall(global, token_valid, call) ==
    IF ~token_valid THEN 401
    ELSE IF global = <<>> THEN 503
    ELSE IF call = "raise" THEN 500
    ELSE 200

\* the results rag_system.query may return besides the empty list
RetrievedResults ==
    <<[content |-> "It pays.",
       metadata |-> [source_file |-> "a.pdf", section_type |-> "coverage"],
       similarity_score |-> 8,
       rank |-> 1]>>

\* what the calls made for one question may meet
QuestionMet(question) ==
    {[query |-> "raise", results |-> <<>>, llm |-> <<>>],
     [query |-> "ok", results |-> <<>>, llm |-> <<>>]}
    \cup {[query |-> "ok", results |-> RetrievedResults, llm |-> reply] :
             reply \in LlmReplies(question)}

MaxQuestions == 2

Questions == {"What is covered?", "Is flood excluded?"}

QuestionLists == UNION {[1..n -> Questions] : n \in 0..MaxQuestions}

InitApi ==
    /\ raw_lines = <<>>
    /\ text_content = <<>>
    /\ tables = <<>>
    /\ chunk_size = DefaultChunkSize
    /\ chunk_overlap = DefaultChunkOverlap
    /\ pos = 1
    /\ current_chunk = <<>>
    /\ current_section = "general"
    /\ chunks = <<>>
    /\ phase = "api"
    /\ disk \in {<<>>, [file \in Files |-> MemoDoc]}
    /\ collection = <<>>
    /\ processed_docs = <<>>
    /\ pdf_files = <<>>
    /\ attempted = <<>>
    /\ outcome = <<>>
    /\ add_dup = "ignore"
    /\ CallerAtRest
    /\ EmbedderAtRest
    /\ vector_db_exists \in BOOLEAN
    /\ groq_api_key \in BOOLEAN
    /\ rag_system = <<>>
    /\ init_result = <<>>
    /\ request = <<>>
    /\ response = <<>>
    /\ llm_log = <<>>

\* startup_event: initialize_rag_system
Startup ==
    /\ phase = "api"
    /\ init_result = <<>>
    /\ \E met \in InitMet :
           LET r == InitializeRagSystem(rag_system, vector_db_exists, DOMAIN disk # {}, met)
           IN  /\ rag_system' = r.rag_system
               /\ init_result' = <<[returned |-> r.returned, at |-> r.at]>>
    /\ UNCHANGED <<chunker_vars, phase, pipeline_vars, caller_vars, embedder_vars,
                   vector_db_exists, groq_api_key, request, response, llm_log>>

\* the server takes requests after startup, one at a time
Serving == phase = "api" /\ init_result # <<>> /\ request = <<>>

\* GET /health
HealthCheck ==
    /\ Serving
    /\ request' = [endpoint |-> "health", token_valid |-> TRUE]
    /\ response' =
           [status |-> 200,
            body |-> [status |-> IF rag_system # <<>> /\ vector_db_exists
                                 THEN "healthy" ELSE "degraded",
                      rag_system_ready |-> rag_system # <<>>,
                      groq_ready |-> groq_api_key,
                      vector_db_ready |-> vector_db_exists]]
    /\ UNCHANGED <<chunker_vars, phase, pipeline_vars, caller_vars, embedder_vars,
                   vector_db_exists, groq_api_key, rag_system, init_result, llm_log>>

\* POST /api/v1/hackrx/run
RunRequest ==
    /\ Serving
    /\ \E token_valid \in BOOLEAN : \E questions \in QuestionLists :
       \E met \in [1..Len(questions) -> UNION {QuestionMet(q) : q \in Questions}] :
           /\ \A i \in 1..Len(questions) : met[i] \in QuestionMet(questions[i])
           /\ LET r == RunSubmission(rag_system, groq_api_key, token_valid, questions, met)
              IN  /\ request' = [endpoint |-> "run", token_valid |-> token_valid,
                                 questions |-> questions, met |-> met]
                  /\ response' = [status |-> r.status, body |-> [answers |-> r.answers]]
                  /\ llm_log' = r.asked
    /\ UNCHANGED <<chunker_vars, phase, pipeline_vars, caller_vars, embedder_vars,
                   vector_db_exists, groq_api_key, rag_system, init_result>>

\* GET /api/v1/stats
GetStats ==
    /\ Serving
    /\ \E token_valid \in BOOLEAN : \E call \in {"ok", "raise"} :
           /\ request' = [endpoint |-> "stats", token_valid |-> token_valid]
           /\ response' = [status |-> GuardedCall(rag_system, token_valid, call),
                           body |-> <<>>]
    /\ UNCHANGED <<chunker_vars, phase, pipeline_vars, caller_vars, embedder_vars,
                   vector_db_exists, groq_api_key, rag_system, init_result, llm_log>>

\* POST /api/v1/query
QueryRag ==
    /\ Serving
    /\ \E token_valid \in BOOLEAN : \E call \in {"ok", "raise"} :
           /\ request' = [endpoint |-> "query", token_valid |-> token_valid]
           /\ response' = [status |-> GuardedCall(rag_system, token_valid, call),
                           body |-> <<>>]
    /\ UNCHANGED <<chunker_vars, phase, pipeline_vars, caller_vars, embedder_vars,
                   vector_db_exists, groq_api_key, rag_system, init_result, llm_log>>

\* the response is sent: the server takes the next request
ResponseSent ==
    /\ phase = "api"
    /\ request # <<>>
    /\ request' = <<>>
    /\ response' = <<>>
    /\ llm_log' = <<>>
    /\ UNCHANGED <<chunker_vars, phase, pipeline_vars, caller_vars, embedder_vars,
                   vector_db_exists, groq_api_key, rag_system, init_result>>

NextApi == Startup \/ HealthCheck \/ RunRequest \/ GetStats \/ QueryRag \/ ResponseSent

SpecApi == InitApi /\ [][NextApi]_vars

\* a run request that passed the token check and both 503 guards
RunAnswered ==
    /\ request # <<>>
    /\ request.endpoint = "run"
    /\ request.token_valid
    /\ response.status \in {200, 500}

\* the questions whose retrieval returned results, in order
RECURSIVE WithResults(_, _)
WithResults(questions, met) ==
    IF questions = <<>> THEN <<>>
    ELSE (IF met[1].results # <<>> THEN <<questions[1]>> ELSE <<>>)
         \o WithResults(Tail(questions), Tail(met))

\* C21: a question whose retrieval returned no result is never handed to the
\* language model and is answered with the fixed text; the request fails only
\* when a retrieval call raised, never because a retrieval returned nothing.
C21_NoResultsSignal ==
    RunAnswered =>
        /\ LET expected == WithResults(request.questions, request.met)
           IN  /\ Len(llm_log) <= Len(expected)
               /\ \A k \in 1..Len(llm_log) : llm_log[k].question = expected[k]
               /\ response.status = 200 => Len(llm_log) = Len(expected)
        /\ \A i \in 1..Len(request.questions) :
              (response.status = 200 /\ request.met[i].results = <<>>) =>
                  response.body.answers[i] = NoResultsText
        /\ response.status = 500 =>
              \E i \in 1..Len(request.questions) : request.met[i].query = "raise"

\* two questions, the first without results and the second answered by the
\* language model: one call, for the second question
C21_Witness ==
    /\ RunAnswered
    /\ response.status = 200
    /\ Len(request.questions) = 2
    /\ request.questions[1] # request.questions[2]
    /\ request.met[1].results = <<>>
    /\ request.met[2].results # <<>>
    /\ Len(llm_log) = 1
    /\ llm_log[1].question = request.questions[2]

\* the parts of an error text of generate_answer
IsErrorText(text) ==
    /\ Len(text) > Len("Error generating answer: ")
    /\ SubSeq(text, 1, Len("Error generating answer: ")) = "Error generating answer: "

\* C22: a response of status 200 of the run endpoint holds one answer per
\* question, the i-th for the i-th question: the fixed text when its
\* retrieval returned nothing, the stripped text of the language model when
\* it replied, and an error text when its call failed.
C22_AnswersMatchQuestions ==
    (RunAnswered /\ response.status = 200) =>
        /\ Len(response.body.answers) = Len(request.questions)
        /\ \A i \in 1..Len(request.questions) :
              LET met == request.met[i]
                  given == response.body.answers[i]
              IN  /\ met.results = <<>> => given = NoResultsText
                  /\ (met.results # <<>> /\ met.llm.kind = "ok") =>
                         given = "Answer to: " \o request.questions[i]
                  /\ (met.results # <<>> /\ met.llm.kind # "ok") => IsErrorText(given)

\* two different questions: the call for the first failed, the second was
\* answered
C22_Witness ==
    /\ RunAnswered
    /\ response.status = 200
    /\ Len(request.questions) = 2
    /\ request.questions[1] # request.questions[2]
    /\ request.met[1].results # <<>>
    /\ request.met[1].llm.kind = "exception"
    /\ request.met[2].results # <<>>
    /\ request.met[2].llm.kind = "ok"

\* C30 as stated: after initialize_rag_system returned False the global is
\* None, the health endpoint reports rag_system_ready false, and the run,
\* stats and query endpoints answer 503 to an authorised request.
C30_FailedInitLeavesUnready ==
    (init_result # <<>> /\ ~init_result[1].returned) =>
        /\ rag_system = <<>>
        /\ (request # <<>> /\ request.endpoint = "health") =>
              ~response.body.rag_system_ready
        /\ (request # <<>> /\ request.endpoint # "health" /\ request.token_valid) =>
              response.status = 503

====
